---- MODULE Spec2Model ----
(***************************************************************************)
(* Verification model of the grind-size calculator: the grind-size         *)
(* converter (lib/coffee-utils.ts) and the brew schedule generator         *)
(* (lib/recipe-utils.ts, app/pour-over/custom/page.tsx).                   *)
(*                                                                         *)
(* JavaScript strings are modelled as sequences of one-character strings,  *)
(* so that formatting and parsing are computed and not assumed.  Numbers   *)
(* that the code keeps as IEEE doubles are modelled as exact integers or   *)
(* as exact fractions [n |-> numerator, d |-> denominator].                *)
(***************************************************************************)
EXTENDS Integers, Sequences, FiniteSets, TLC

VARIABLES
    seconds,        \* formatTime / parseTimeToSeconds: the number of seconds given
    timeStr,        \* the string formatTime returned
    parsedSeconds,  \* the number parseTimeToSeconds returned
    timePc,         \* "start" | "formatted" | "parsed"
    microns,        \* getGrindCategory: the argument
    category,       \* the category returned ("none" before the call)
    mapArgs,        \* mapMicronsToSetting: the bounds the calls share
    mapLast,        \* the latest call: its microns and the setting returned
    mapPrev,        \* the call before it
    recipe,         \* the recipe in use (NoRecipe before one is made or selected)
    custom,         \* the recipe rescaled from it (NoRecipe before a rescale)
    uuidCount,      \* the number of uuidv4() calls made so far
    rescales,       \* the number of rescales made
    requestedBrewTime,  \* the totalBrewTimeSeconds given to the latest createCustomRecipe
    currentTimeInSeconds,  \* the elapsed time the timer last reported
    currentStep,    \* the step the brewing screen shows (NoStep before a recipe is loaded)
    nextStepTime,   \* the target time shown beside the timer
    catalog,        \* queryMicrons: the grinder data loaded (NoCatalog when none is)
    queryResult,    \* the latest query: its parameters and what it returned or threw
    micronsTarget,  \* Calculator: targetMicrons, the target grind size
    settings,       \* the grind setting displayed (NoSettings for null)
    selectedModel,  \* the grinder model selected
    showAdvanced,   \* whether the advanced settings are open
    customSettings, \* the advanced settings
    calculatorCalibration,  \* the Calculator's calibrationData state
    calibrationData,  \* Calibration: the calibration data of the selected model
    localStorage,   \* the calibration saved under calibration-<model id>
    lastEvent,      \* the latest handler run, with the point and the points before it
    calibrationEdits,  \* the number of calibration points added or removed
    timerSeconds,   \* Timer: timeInSeconds, the seconds counted
    isRunning,      \* whether the timer runs
    prevTimeRef,    \* prevTimeRef.current, the time last scheduled for notification
    timeoutId,      \* the pending setTimeout(0) that carries a time to the screen
    untilTick,      \* quarter seconds until the running interval fires
    isTimerActive,  \* BrewingTimer: whether the water input is disabled
    totalWaterPoured,  \* the water shown as poured
    waterWeightInput,  \* customWaterWeight, the value of the water input
    debounceTimers, \* the pending timers of the debounced functions, oldest first
    effectDue,      \* whether the step and water effect has to run
    sinceEdit,      \* quarter seconds since the latest water edit, up to DebounceWait
    recomputed,     \* the recomputes made for the current burst of edits
    waterEdits      \* the number of water edits made

timeVars == <<seconds, timeStr, parsedSeconds, timePc>>
catVars == <<microns, category>>
mapVars == <<mapArgs, mapLast, mapPrev>>
recipeVars == <<recipe, custom, uuidCount, rescales, requestedBrewTime>>
brewVars == <<currentTimeInSeconds, currentStep, nextStepTime>>
queryVars == <<catalog, queryResult>>
calcVars == <<micronsTarget, settings, selectedModel, showAdvanced, customSettings,
              calculatorCalibration, calibrationData, localStorage, lastEvent,
              calibrationEdits>>
screenVars == <<timerSeconds, isRunning, prevTimeRef, timeoutId, untilTick,
                isTimerActive, totalWaterPoured, waterWeightInput, debounceTimers,
                effectDue, sinceEdit, recomputed, waterEdits>>
vars == <<seconds, timeStr, parsedSeconds, timePc, microns, category,
          mapArgs, mapLast, mapPrev, recipe, custom, uuidCount, rescales,
          requestedBrewTime, currentTimeInSeconds, currentStep, nextStepTime,
          catalog, queryResult, micronsTarget, settings, selectedModel,
          showAdvanced, customSettings, calculatorCalibration,
          calibrationData, localStorage, lastEvent, calibrationEdits,
          timerSeconds, isRunning, prevTimeRef, timeoutId, untilTick,
          isTimerActive, totalWaterPoured, waterWeightInput, debounceTimers,
          effectDue, sinceEdit, recomputed, waterEdits>>

(***************************************************************************)
(* JavaScript primitives                                                   *)
(***************************************************************************)

\* The value JavaScript calls NaN, kept apart from every number of the model.
NaN ==
    0 - 1000000000

Digits ==
    <<"0", "1", "2", "3", "4", "5", "6", "7", "8", "9">>

IsDigit(c) ==
    \E i \in 1..10 : Digits[i] = c

DigitValue(c) ==
    (CHOOSE i \in 1..10 : Digits[i] = c) - 1

\* Number.prototype.toString of a non-negative integer: its decimal digits.
RECURSIVE NatToString(_)
NatToString(n) ==
    IF n < 10 THEN <<Digits[n + 1]>>
    ELSE Append(NatToString(n \div 10), Digits[(n % 10) + 1])

\* Template-literal rendering of a number: NaN prints as "NaN", a negative
\* integer with a leading minus sign.
NumToString(n) ==
    IF n = NaN THEN <<"N", "a", "N">>
    ELSE IF n < 0 THEN <<"-">> \o NatToString(0 - n)
    ELSE NatToString(n)

\* String.prototype.padStart(len, "0")
RECURSIVE PadStart(_, _)
PadStart(s, len) ==
    IF Len(s) >= len THEN s ELSE PadStart(<<"0">> \o s, len)

\* String.prototype.split(sep) for a one-character separator.
RECURSIVE Split(_, _)
Split(s, sep) ==
    IF \A i \in 1..Len(s) : s[i] # sep THEN <<s>>
    ELSE LET k == CHOOSE i \in 1..Len(s) :
                      s[i] = sep /\ \A j \in 1..(i - 1) : s[j] # sep
         IN  <<SubSeq(s, 1, k - 1)>> \o Split(SubSeq(s, k + 1, Len(s)), sep)

\* The value of a sequence of decimal digits.
RECURSIVE DigitsValue(_)
DigitsValue(s) ==
    IF Len(s) = 0 THEN 0
    ELSE 10 * DigitsValue(SubSeq(s, 1, Len(s) - 1)) + DigitValue(s[Len(s)])

\* Number(str): the empty string is 0, a string of digits (with an optional
\* minus sign) its value, anything else NaN.
ToNumber(s) ==
    IF Len(s) = 0 THEN 0
    ELSE IF \A i \in 1..Len(s) : IsDigit(s[i]) THEN DigitsValue(s)
    ELSE IF s[1] = "-" /\ Len(s) > 1 /\ \A i \in 2..Len(s) : IsDigit(s[i])
         THEN 0 - DigitsValue(Tail(s))
    ELSE NaN

\* The longest prefix of s made of digits.
RECURSIVE DigitPrefix(_)
DigitPrefix(s) ==
    IF Len(s) = 0 \/ ~IsDigit(s[1]) THEN <<>>
    ELSE <<s[1]>> \o DigitPrefix(Tail(s))

\* parseInt(str): the leading digits (after an optional minus sign), NaN when
\* there are none.
ParseInt(s) ==
    LET neg  == Len(s) > 0 /\ s[1] = "-"
        body == IF neg THEN Tail(s) ELSE s
        pre  == DigitPrefix(body)
    IN  IF Len(pre) = 0 THEN NaN
        ELSE IF neg THEN 0 - DigitsValue(pre) ELSE DigitsValue(pre)

\* Math.round of the fraction n/d (d > 0): floor(n/d + 1/2), halves go up.
RoundDiv(n, d) ==
    (2 * n + d) \div (2 * d)

\* JavaScript %: the remainder takes the sign of the dividend.
JsMod(a, b) ==
    IF a >= 0 THEN a % b ELSE 0 - ((0 - a) % b)

(***************************************************************************)
(* formatTime / parseTimeToSeconds (lib/recipe-utils.ts)                   *)
(***************************************************************************)

MaxSeconds ==
    3700

formatTimeRounded(s) ==
    LET mins == RoundDiv(s, 60)
        secs == JsMod(s, 60)
    IN  NumToString(mins) \o <<":">> \o PadStart(NumToString(secs), 2)

formatTime(s) ==
    LET mins == s \div 60
        secs == JsMod(s, 60)
    IN  NumToString(mins) \o <<":">> \o PadStart(NumToString(secs), 2)

parseTimeToSeconds(str) ==
    LET parts == Split(str, ":")
        mins  == ToNumber(parts[1])
        secs  == IF Len(parts) >= 2 THEN ToNumber(parts[2]) ELSE NaN
    IN  IF mins = NaN \/ secs = NaN THEN NaN ELSE mins * 60 + secs



FormatTime ==
    /\ timePc = "start"
    /\ timeStr' = formatTime(seconds)
    /\ timePc' = "formatted"
    /\ UNCHANGED <<seconds, parsedSeconds>>

ParseTimeToSeconds ==
    /\ timePc = "formatted"
    /\ parsedSeconds' = parseTimeToSeconds(timeStr)
    /\ timePc' = "parsed"
    /\ UNCHANGED <<seconds, timeStr>>

(***************************************************************************)
(* getGrindCategory (lib/coffee-utils.ts) over GRIND_CATEGORY_RANGES       *)
(***************************************************************************)

MicronMargin ==
    60

\* Object.entries(GRIND_CATEGORY_RANGES), in insertion order.
GRIND_CATEGORY_RANGES ==
    << [category |-> "Extra Fine",    min |-> 0,    max |-> 200],
       [category |-> "Fine",          min |-> 200,  max |-> 400],
       [category |-> "Medium Fine",   min |-> 400,  max |-> 600],
       [category |-> "Medium",        min |-> 600,  max |-> 800],
       [category |-> "Medium Coarse", min |-> 800,  max |-> 1000],
       [category |-> "Coarse",        min |-> 1000, max |-> 1200],
       [category |-> "Extra Coarse",  min |-> 1200, max |-> 1400] >>

getGrindCategoryClosed(m) ==
    LET hits == {i \in 1..Len(GRIND_CATEGORY_RANGES) :
                    /\ m >= GRIND_CATEGORY_RANGES[i].min
                    /\ m <= GRIND_CATEGORY_RANGES[i].max}
    IN  IF hits # {}
        THEN GRIND_CATEGORY_RANGES[CHOOSE i \in hits : \A j \in hits : i <= j].category
        ELSE IF m < GRIND_CATEGORY_RANGES[1].min THEN "Extra Fine"
        ELSE "Extra Coarse"

getGrindCategory(m) ==
    LET hits == {i \in 1..Len(GRIND_CATEGORY_RANGES) :
                    /\ m >= GRIND_CATEGORY_RANGES[i].min
                    /\ m < GRIND_CATEGORY_RANGES[i].max}
    IN  IF hits # {}
        THEN GRIND_CATEGORY_RANGES[CHOOSE i \in hits : \A j \in hits : i <= j].category
        ELSE IF m < GRIND_CATEGORY_RANGES[1].min THEN "Extra Fine"
        ELSE "Extra Coarse"



GetGrindCategory ==
    /\ category = "none"
    /\ category' = getGrindCategory(microns)
    /\ UNCHANGED microns


(***************************************************************************)
(* mapMicronsToSetting (lib/coffee-utils.ts)                               *)
(*                                                                         *)
(* A setting is string | number | null: [kind, n, s] with kind "num"       *)
(* (value n), "str" (characters s) or "null".                              *)
(***************************************************************************)

MaxMicrons ==
    5

LowMicrons ==
    1

MaxSimpleSetting ==
    3

MaxRotations ==
    1

MaxClicksPerNumber ==
    2

Num(v) ==
    [kind |-> "num", n |-> v, s |-> <<>>]

Str(chars) ==
    [kind |-> "str", n |-> 0, s |-> chars]

Null ==
    [kind |-> "null", n |-> 0, s |-> <<>>]

\* String(setting)
SettingString(setting) ==
    IF setting.kind = "str" THEN setting.s ELSE NumToString(setting.n)

\* Array.prototype.join(".") of rendered numbers.
RECURSIVE JoinDots(_)
JoinDots(nums) ==
    IF Len(nums) = 0 THEN <<>>
    ELSE IF Len(nums) = 1 THEN NumToString(nums[1])
    ELSE NumToString(nums[1]) \o <<".">> \o JoinDots(Tail(nums))

\* typeof setting === 'string' ? parseInt(setting) : setting
SimpleSettingNum(setting) ==
    IF setting.kind = "str" THEN ParseInt(setting.s) ELSE setting.n

\* parseComplexSetting: [rotations, numbers, clicks, numValue]
parseComplexSetting(setting, clicksPerNumber) ==
    LET parts == Split(SettingString(setting), ".")
    IN  IF Len(parts) = 3
        THEN LET rotations == ParseInt(parts[1])
                 numbers   == ParseInt(parts[2])
                 clicks    == ParseInt(parts[3])
                 numValue  == IF NaN \in {rotations, numbers, clicks} THEN NaN
                              ELSE (rotations * 10 * clicksPerNumber)
                                   + (numbers * clicksPerNumber) + clicks
             IN  <<rotations, numbers, clicks, numValue>>
        ELSE IF Len(parts) = 2
        THEN LET rotations == ParseInt(parts[1])
                 clicks    == ParseInt(parts[2])
                 numValue  == IF NaN \in {rotations, clicks} THEN NaN
                              ELSE (rotations * 10 * clicksPerNumber) + clicks
             IN  <<rotations, 0, clicks, numValue>>
        ELSE <<0, 0, 0, 0>>

InterpolateRoundInverted(minValue, maxValue, m, minMicrons, maxMicrons) ==
    IF minValue = NaN \/ maxValue = NaN THEN NaN
    ELSE RoundDiv(minValue * (maxMicrons - minMicrons)
                    + (maxMicrons - m) * (maxValue - minValue),
                  maxMicrons - minMicrons)

InterpolateRoundNoRatio(minValue, maxValue, m, minMicrons, maxMicrons) ==
    IF minValue = NaN \/ maxValue = NaN THEN NaN
    ELSE minValue + (m - minMicrons) * (maxValue - minValue)

\* Math.round(minValue + ratio * (maxValue - minValue)) with
\* ratio = (microns - minMicrons) / (maxMicrons - minMicrons), computed exactly.
InterpolateRound(minValue, maxValue, m, minMicrons, maxMicrons) ==
    IF minValue = NaN \/ maxValue = NaN THEN NaN
    ELSE RoundDiv(minValue * (maxMicrons - minMicrons)
                    + (m - minMicrons) * (maxValue - minValue),
                  maxMicrons - minMicrons)

ExpandComplexBaseTen(targetValue, partCount, clicksPerNumber) ==
    IF partCount = 3
    THEN IF targetValue = NaN THEN Str(JoinDots(<<NaN, NaN, NaN>>))
         ELSE Str(JoinDots(<<targetValue \div 100,
                             JsMod(targetValue, 100) \div 10,
                             JsMod(targetValue, 10)>>))
    ELSE IF partCount = 2
    THEN IF targetValue = NaN THEN Str(JoinDots(<<NaN, NaN>>))
         ELSE Str(JoinDots(<<targetValue \div 10, JsMod(targetValue, 10)>>))
    ELSE Null

\* The re-expansion of a click count into the component count of minSetting.
ExpandComplex(targetValue, partCount, clicksPerNumber) ==
    IF partCount = 3
    THEN IF targetValue = NaN THEN Str(JoinDots(<<NaN, NaN, NaN>>))
         ELSE LET rotations       == targetValue \div (10 * clicksPerNumber)
                  remainingClicks == JsMod(targetValue, 10 * clicksPerNumber)
                  numbers         == remainingClicks \div clicksPerNumber
                  clicks          == JsMod(remainingClicks, clicksPerNumber)
              IN  Str(JoinDots(<<rotations, numbers, clicks>>))
    ELSE IF partCount = 2
    THEN IF targetValue = NaN THEN Str(JoinDots(<<NaN, NaN>>))
         ELSE LET rotations == targetValue \div (10 * clicksPerNumber)
                  clicks    == JsMod(targetValue, 10 * clicksPerNumber)
              IN  Str(JoinDots(<<rotations, clicks>>))
    ELSE Null

\* The part of mapMicronsToSetting after the clamp.
Interpolated(m, minSetting, maxSetting, minMicrons, maxMicrons, settingFormat, clicksPerNumber) ==
    IF maxMicrons - minMicrons <= 0 THEN Null
    ELSE IF settingFormat = "simple"
    THEN Num(InterpolateRound(SimpleSettingNum(minSetting), SimpleSettingNum(maxSetting),
                              m, minMicrons, maxMicrons))
    ELSE LET minValue    == parseComplexSetting(minSetting, clicksPerNumber)[4]
             maxValue    == parseComplexSetting(maxSetting, clicksPerNumber)[4]
             targetValue == InterpolateRound(minValue, maxValue, m, minMicrons, maxMicrons)
             minParts    == Split(SettingString(minSetting), ".")
         IN  ExpandComplex(targetValue, Len(minParts), clicksPerNumber)

mapMicronsToSettingStrictClamp(m, minSetting, maxSetting, minMicrons, maxMicrons, settingFormat, clicksPerNumber) ==
    IF m < minMicrons THEN minSetting
    ELSE IF m > maxMicrons THEN maxSetting
    ELSE Interpolated(m, minSetting, maxSetting, minMicrons, maxMicrons,
                      settingFormat, clicksPerNumber)

mapMicronsToSetting(m, minSetting, maxSetting, minMicrons, maxMicrons, settingFormat, clicksPerNumber) ==
    IF m <= minMicrons THEN minSetting
    ELSE IF m >= maxMicrons THEN maxSetting
    ELSE Interpolated(m, minSetting, maxSetting, minMicrons, maxMicrons,
                      settingFormat, clicksPerNumber)

\* The settings the calls are given: simple click counts as numbers and as
\* strings, complex settings in both dotted forms.
SimpleSettings ==
    {Num(v) : v \in 0..MaxSimpleSetting} \cup {Str(NatToString(v)) : v \in 0..MaxSimpleSetting}

ThreePart(r, n, c) ==
    Str(NatToString(r) \o <<".">> \o NatToString(n) \o <<".">> \o NatToString(c))

TwoPart(r, c) ==
    Str(NatToString(r) \o <<".">> \o NatToString(c))

ComplexSettings(clicksPerNumber, numberSet) ==
    {ThreePart(r, n, c) : r \in 0..MaxRotations, n \in numberSet, c \in 0..(clicksPerNumber - 1)}
    \cup {TwoPart(r, c) : r \in 0..MaxRotations, c \in 0..(clicksPerNumber - 1)}

\* Settings that are not 2 or 3 dot-separated integer components: a single
\* component (as a string and as a number), a non-numeric component, four
\* components, the empty string.
MalformedSettings ==
    { Str(<<"5">>), Num(5), Str(<<"1", ".", "x">>),
      Str(<<"1", ".", "2", ".", "3", ".", "4">>), Str(<<>>) }

NoCall ==
    [called |-> FALSE, microns |-> 0, result |-> Null]

NoMapArgs ==
    [minSetting |-> Null, maxSetting |-> Null, minMicrons |-> 0,
     maxMicrons |-> 0, settingFormat |-> "idle", clicksPerNumber |-> 0]




MapMicronsToSetting(m) ==
    /\ mapArgs.settingFormat # "idle"
    /\ mapLast' = [called |-> TRUE, microns |-> m,
                   result |-> mapMicronsToSetting(m, mapArgs.minSetting, mapArgs.maxSetting,
                                                  mapArgs.minMicrons, mapArgs.maxMicrons,
                                                  mapArgs.settingFormat,
                                                  mapArgs.clicksPerNumber)]
    /\ mapPrev' = mapLast
    /\ UNCHANGED mapArgs

MapCall ==
    \E m \in 0..(MaxMicrons + 1) : MapMicronsToSetting(m)

(***************************************************************************)
(* Brew schedule generator (lib/recipe-utils.ts) and the custom recipe     *)
(* form (app/pour-over/custom/page.tsx)                                    *)
(*                                                                         *)
(* Weights, ratios and multipliers are exact fractions.  A step keeps id,  *)
(* type, targetTime, targetTimeInSeconds, targetWeight and targetRatio;    *)
(* the name, instruction and description texts and the water temperature   *)
(* are left out: no weight or time is read from them.  uuidv4() returns    *)
(* the next value of a counter.                                            *)
(***************************************************************************)

DEFAULT_BLOOM_TIME ==
    45

DEFAULT_POUR_TIME ==
    15

DEFAULT_INTERVAL_BETWEEN_POURS ==
    15

DEFAULT_DRAWDOWN_TIME ==
    60

MaxPours ==
    4

MaxAdvancedPours ==
    2

MaxRescales ==
    1

\* The value of an optional number that was not given.
Undefined ==
    0 - 2000000000

Abs(x) ==
    IF x < 0 THEN 0 - x ELSE x

RECURSIVE GCD(_, _)
GCD(a, b) ==
    IF b = 0 THEN a ELSE GCD(b, a % b)

\* The fraction n/d (d > 0) in lowest terms.
Frac(n, d) ==
    LET g == GCD(Abs(n), d)
    IN  [n |-> n \div g, d |-> d \div g]

FInt(k) ==
    [n |-> k, d |-> 1]

\* An optional fraction that was not given.
UndefinedFrac ==
    [n |-> 0, d |-> 0]

FMul(a, b) ==
    Frac(a.n * b.n, a.d * b.d)

FDiv(a, b) ==
    IF b.n > 0 THEN Frac(a.n * b.d, a.d * b.n) ELSE Frac(0 - (a.n * b.d), 0 - (a.d * b.n))

FSub(a, b) ==
    Frac(a.n * b.d - b.n * a.d, a.d * b.d)

FRound(a) ==
    RoundDiv(a.n, a.d)

\* a || dflt for a number: 0 and undefined are falsy.
FOr(a, dflt) ==
    IF a = UndefinedFrac \/ a.n = 0 THEN dflt ELSE a

createStep(id, type, targetTimeInSeconds, targetWeight, targetRatio) ==
    [id |-> id, type |-> type, targetTime |-> formatTime(targetTimeInSeconds),
     targetTimeInSeconds |-> targetTimeInSeconds, targetWeight |-> targetWeight,
     targetRatio |-> targetRatio]

createLegacyStepsRemainder(waterWeight, bloomWater, bloomRatio, pours, uuid) ==
    LET remainingWater == FSub(waterWeight, FInt(bloomWater))
        waterPerPour   == FRound(FDiv(remainingWater, FInt(pours)))
        pourRatio      == FDiv(FDiv(remainingWater, FInt(pours)), waterWeight)
        pourTime       == DEFAULT_POUR_TIME + DEFAULT_INTERVAL_BETWEEN_POURS
    IN  [i \in 1..(pours + 2) |->
            IF i = 1 THEN createStep(uuid + i, "bloom", 0, bloomWater, bloomRatio)
            ELSE IF i = pours + 1
            THEN createStep(uuid + i, "pour", DEFAULT_BLOOM_TIME + (i - 2) * pourTime,
                            FRound(remainingWater) - (pours - 1) * waterPerPour, pourRatio)
            ELSE IF i <= pours
            THEN createStep(uuid + i, "pour", DEFAULT_BLOOM_TIME + (i - 2) * pourTime,
                            waterPerPour, pourRatio)
            ELSE createStep(uuid + i, "drawdown", DEFAULT_BLOOM_TIME + pours * pourTime,
                            0, FInt(0))]

createLegacySteps(waterWeight, bloomWater, bloomRatio, pours, uuid) ==
    LET remainingWater == FSub(waterWeight, FInt(bloomWater))
        waterPerPour   == FRound(FDiv(remainingWater, FInt(pours)))
        pourRatio      == FDiv(FDiv(remainingWater, FInt(pours)), waterWeight)
        pourTime       == DEFAULT_POUR_TIME + DEFAULT_INTERVAL_BETWEEN_POURS
    IN  [i \in 1..(pours + 2) |->
            IF i = 1 THEN createStep(uuid + i, "bloom", 0, bloomWater, bloomRatio)
            ELSE IF i <= pours + 1
            THEN createStep(uuid + i, "pour", DEFAULT_BLOOM_TIME + (i - 2) * pourTime,
                            waterPerPour, pourRatio)
            ELSE createStep(uuid + i, "drawdown", DEFAULT_BLOOM_TIME + pours * pourTime,
                            0, FInt(0))]

createBasicModeStepsFloor(waterWeight, bloomWater, bloomRatio, pours, totalBrewTimeSeconds, uuid) ==
    LET bloomDuration       == DEFAULT_BLOOM_TIME
        remainingTime       == totalBrewTimeSeconds - bloomDuration - DEFAULT_DRAWDOWN_TIME
        remainingWater      == FSub(waterWeight, FInt(bloomWater))
        timePerPourInterval == IF pours > 0 THEN remainingTime \div pours ELSE 0
        perPour             == FDiv(remainingWater, FInt(pours))
        waterPerPour        == IF pours > 0 THEN perPour.n \div perPour.d ELSE 0
        pourRatio           == FDiv(FDiv(remainingWater, FInt(pours)), waterWeight)
    IN  [i \in 1..(pours + 2) |->
            IF i = 1 THEN createStep(uuid + i, "bloom", 0, bloomWater, bloomRatio)
            ELSE IF i <= pours + 1
            THEN createStep(uuid + i, "pour", bloomDuration + (i - 2) * timePerPourInterval,
                            waterPerPour, pourRatio)
            ELSE createStep(uuid + i, "drawdown", bloomDuration + pours * timePerPourInterval,
                            0, FInt(0))]

createBasicModeSteps(waterWeight, bloomWater, bloomRatio, pours, totalBrewTimeSeconds, uuid) ==
    LET bloomDuration       == DEFAULT_BLOOM_TIME
        remainingTime       == totalBrewTimeSeconds - bloomDuration - DEFAULT_DRAWDOWN_TIME
        remainingWater      == FSub(waterWeight, FInt(bloomWater))
        timePerPourInterval == IF pours > 0 THEN remainingTime \div pours ELSE 0
        waterPerPour        == IF pours > 0 THEN FRound(FDiv(remainingWater, FInt(pours))) ELSE 0
        pourRatio           == FDiv(FDiv(remainingWater, FInt(pours)), waterWeight)
    IN  [i \in 1..(pours + 2) |->
            IF i = 1 THEN createStep(uuid + i, "bloom", 0, bloomWater, bloomRatio)
            ELSE IF i <= pours + 1
            THEN createStep(uuid + i, "pour", bloomDuration + (i - 2) * timePerPourInterval,
                            waterPerPour, pourRatio)
            ELSE createStep(uuid + i, "drawdown", bloomDuration + pours * timePerPourInterval,
                            0, FInt(0))]

\* createCustomRecipe: the recipe, given the number of uuidv4() calls made so far.
createCustomRecipe(params, uuid) ==
    LET pours           == params.pours
        bloomMultiplier == IF params.bloomMultiplier = UndefinedFrac THEN FInt(3)
                           ELSE params.bloomMultiplier
        mode            == IF params.mode = "undefined" THEN "basic" ELSE params.mode
        inputMode       == IF params.inputMode = "undefined" THEN "coffee" ELSE params.inputMode
        totalBrewTimeSeconds ==
            IF params.totalBrewTimeSeconds = Undefined
            THEN DEFAULT_BLOOM_TIME
                 + (pours * (DEFAULT_POUR_TIME + DEFAULT_INTERVAL_BETWEEN_POURS))
                 + DEFAULT_DRAWDOWN_TIME
            ELSE params.totalBrewTimeSeconds
        coffeeWeight    == IF inputMode = "coffee" THEN FOr(params.coffeeWeight, FInt(20))
                           ELSE FInt(FRound(FDiv(FOr(params.waterWeight, FInt(320)), params.ratio)))
        waterWeight     == IF inputMode = "coffee" THEN FMul(coffeeWeight, params.ratio)
                           ELSE FOr(params.waterWeight, FInt(320))
        bloomWater      == FRound(FMul(coffeeWeight, bloomMultiplier))
        bloomRatio      == bloomMultiplier
        steps           == IF mode = "basic"
                           THEN createBasicModeSteps(waterWeight, bloomWater, bloomRatio, pours,
                                                     totalBrewTimeSeconds, uuid)
                           ELSE IF mode = "advanced" /\ params.hasAdvancedSteps
                           THEN params.advancedSteps
                           ELSE createLegacySteps(waterWeight, bloomWater, bloomRatio, pours, uuid)
        made            == IF mode = "advanced" /\ params.hasAdvancedSteps THEN 0 ELSE Len(steps)
        lastStep        == steps[Len(steps)]
    IN  [id |-> uuid + made + 1,
         coffeeWeight |-> coffeeWeight,
         waterWeight |-> waterWeight,
         ratio |-> params.ratio,
         bloomMultiplier |-> bloomMultiplier,
         pours |-> pours,
         steps |-> steps,
         totalBrewTime |-> lastStep.targetTimeInSeconds + DEFAULT_DRAWDOWN_TIME,
         mode |-> mode,
         inputMode |-> inputMode]

\* The number of uuidv4() calls createCustomRecipe makes.
createCustomRecipeUuids(params) ==
    IF params.mode = "advanced" /\ params.hasAdvancedSteps THEN 1 ELSE params.pours + 3

calculateRecipeWithCustomWaterRatios(rcp, customWaterWeight, uuid) ==
    LET adjustedCoffeeWeight == FRound(FDiv(customWaterWeight, rcp.ratio))
    IN  [rcp EXCEPT
            !.id = uuid + 1,
            !.coffeeWeight = FInt(adjustedCoffeeWeight),
            !.waterWeight = customWaterWeight,
            !.steps = [i \in 1..Len(rcp.steps) |->
                LET step == rcp.steps[i]
                    bloomWeight == FRound(FMul(FInt(adjustedCoffeeWeight), step.targetRatio))
                    pourWeight  == FRound(FMul(customWaterWeight, step.targetRatio))
                IN  IF step.type = "bloom"
                    THEN [step EXCEPT
                            !.id = uuid + 1 + i,
                            !.targetWeight = bloomWeight,
                            !.targetRatio = FDiv(FInt(bloomWeight), FInt(adjustedCoffeeWeight))]
                    ELSE IF step.type = "pour"
                    THEN [step EXCEPT
                            !.id = uuid + 1 + i,
                            !.targetWeight = pourWeight,
                            !.targetRatio = FDiv(FInt(pourWeight), customWaterWeight)]
                    ELSE [step EXCEPT !.id = uuid + 1 + i]]]

\* calculateRecipeWithCustomWater: one id for the recipe, then one per step.
calculateRecipeWithCustomWater(rcp, customWaterWeight, uuid) ==
    LET adjustedCoffeeWeight == FRound(FDiv(customWaterWeight, rcp.ratio))
    IN  [rcp EXCEPT
            !.id = uuid + 1,
            !.coffeeWeight = FInt(adjustedCoffeeWeight),
            !.waterWeight = customWaterWeight,
            !.steps = [i \in 1..Len(rcp.steps) |->
                LET step == rcp.steps[i]
                IN  IF step.type = "bloom"
                    THEN [step EXCEPT
                            !.id = uuid + 1 + i,
                            !.targetWeight =
                                FRound(FMul(FInt(adjustedCoffeeWeight), step.targetRatio))]
                    ELSE IF step.type = "pour"
                    THEN [step EXCEPT
                            !.id = uuid + 1 + i,
                            !.targetWeight = FRound(FMul(customWaterWeight, step.targetRatio))]
                    ELSE [step EXCEPT !.id = uuid + 1 + i]]]

\* A step of predefinedRecipes; its targetTime literal is the formatted time.
PredefinedStep(id, type, targetTime, targetTimeInSeconds, targetWeight, targetRatio) ==
    [id |-> id, type |-> type, targetTime |-> targetTime,
     targetTimeInSeconds |-> targetTimeInSeconds, targetWeight |-> targetWeight,
     targetRatio |-> targetRatio]

predefinedRecipes ==
    << [id |-> 1, coffeeWeight |-> FInt(18), waterWeight |-> FInt(288), ratio |-> FInt(16),
        bloomMultiplier |-> FInt(3), pours |-> 3, totalBrewTime |-> 180,
        mode |-> "undefined", inputMode |-> "undefined",
        steps |-> <<
          PredefinedStep(2, "bloom", <<"0", ":", "0", "0">>, 0, 54, FInt(3)),
          PredefinedStep(3, "pour", <<"0", ":", "4", "5">>, 45, 78, Frac(78, 288)),
          PredefinedStep(4, "pour", <<"1", ":", "1", "5">>, 75, 78, Frac(78, 288)),
          PredefinedStep(5, "pour", <<"1", ":", "4", "5">>, 105, 78, Frac(78, 288)),
          PredefinedStep(6, "drawdown", <<"2", ":", "1", "5">>, 135, 0, FInt(0)) >>],
       [id |-> 7, coffeeWeight |-> FInt(25), waterWeight |-> FInt(400), ratio |-> FInt(16),
        bloomMultiplier |-> FInt(2), pours |-> 2, totalBrewTime |-> 195,
        mode |-> "undefined", inputMode |-> "undefined",
        steps |-> <<
          PredefinedStep(8, "bloom", <<"0", ":", "0", "0">>, 0, 50, FInt(2)),
          PredefinedStep(9, "pour", <<"0", ":", "4", "5">>, 45, 175, Frac(175, 400)),
          PredefinedStep(10, "pour", <<"1", ":", "3", "0">>, 90, 175, Frac(175, 400)),
          PredefinedStep(11, "drawdown", <<"2", ":", "1", "5">>, 135, 0, FInt(0)) >>],
       [id |-> 12, coffeeWeight |-> FInt(42), waterWeight |-> FInt(700), ratio |-> Frac(167, 10),
        bloomMultiplier |-> Frac(21, 10), pours |-> 3, totalBrewTime |-> 210,
        mode |-> "undefined", inputMode |-> "undefined",
        steps |-> <<
          PredefinedStep(13, "bloom", <<"0", ":", "0", "0">>, 0, 90, Frac(21, 10)),
          PredefinedStep(14, "pour", <<"0", ":", "4", "5">>, 45, 200, Frac(200, 700)),
          PredefinedStep(15, "pour", <<"1", ":", "1", "5">>, 75, 200, Frac(200, 700)),
          PredefinedStep(16, "pour", <<"1", ":", "4", "5">>, 105, 210, Frac(210, 700)),
          PredefinedStep(17, "drawdown", <<"2", ":", "1", "5">>, 135, 0, FInt(0)) >>],
       [id |-> 18, coffeeWeight |-> FInt(22), waterWeight |-> FInt(352), ratio |-> FInt(16),
        bloomMultiplier |-> Frac(5, 2), pours |-> 2, totalBrewTime |-> 180,
        mode |-> "undefined", inputMode |-> "undefined",
        steps |-> <<
          PredefinedStep(19, "bloom", <<"0", ":", "0", "0">>, 0, 55, Frac(5, 2)),
          PredefinedStep(20, "pour", <<"0", ":", "4", "0">>, 40, 150, Frac(150, 352)),
          PredefinedStep(21, "pour", <<"1", ":", "2", "0">>, 80, 147, Frac(147, 352)),
          PredefinedStep(22, "drawdown", <<"2", ":", "0", "0">>, 120, 0, FInt(0)) >>] >>

\* uuidv4() calls made while the module loads predefinedRecipes.
UuidsAtLoad ==
    22

NoRecipe ==
    [id |-> 0, coffeeWeight |-> FInt(0), waterWeight |-> FInt(0), ratio |-> FInt(0),
     bloomMultiplier |-> FInt(0), pours |-> 0, steps |-> <<>>, totalBrewTime |-> 0,
     mode |-> "none", inputMode |-> "none"]

\* onSubmit of the custom recipe form: the steps of the advanced tab, then
\* createCustomRecipe.  totalCoffee and totalWater are the form's derived weights.
onSubmit(values, uuid) ==
    LET totalBrewTimeSeconds == parseTimeToSeconds(values.totalBrewTime)
        totalCoffee == IF values.inputMode = "coffee" THEN FOr(values.coffeeWeight, FInt(20))
                       ELSE FOr(FInt(FRound(FDiv(values.waterWeight, values.ratio))), FInt(20))
        totalWater  == IF values.inputMode = "coffee" THEN FMul(totalCoffee, values.ratio)
                       ELSE FOr(values.waterWeight, FInt(320))
        n           == Len(values.advancedSteps)
        StartTime[i \in 1..(n + 1)] ==
            IF i = 1 THEN 0 ELSE StartTime[i - 1] + values.advancedSteps[i - 1].duration
        advancedStepsForRecipe ==
            [i \in 1..(n + 1) |->
                IF i <= n
                THEN LET step == values.advancedSteps[i]
                     IN  createStep(0 - i, IF step.isBloom THEN "bloom" ELSE "pour",
                                    StartTime[i], step.waterAmount,
                                    IF step.isBloom
                                    THEN FDiv(FInt(step.waterAmount), totalCoffee)
                                    ELSE FDiv(FInt(step.waterAmount), totalWater))
                ELSE createStep(0 - i, "drawdown", StartTime[i], 0, FInt(0))]
    IN  createCustomRecipe(
            [coffeeWeight |-> totalCoffee,
             waterWeight |-> totalWater,
             ratio |-> values.ratio,
             pours |-> values.pours,
             bloomMultiplier |-> values.bloomMultiplier,
             mode |-> values.mode,
             inputMode |-> values.inputMode,
             totalBrewTimeSeconds |-> totalBrewTimeSeconds,
             hasAdvancedSteps |-> values.mode = "advanced",
             advancedSteps |-> IF values.mode = "advanced" THEN advancedStepsForRecipe
                               ELSE <<>>],
            uuid)

\* The inputs of the model.
CoffeeWeights ==
    {FInt(15), FInt(20), Frac(41, 2)}

WaterWeights ==
    {FInt(250), FInt(320)}

Ratios ==
    {FInt(15), FInt(16), Frac(167, 10)}

BloomMultipliers ==
    {FInt(2), Frac(5, 2), FInt(3)}

BrewTimes ==
    {60, 150, 210}

BrewTimeStrings ==
    { <<"1", ":", "0", "0">>, <<"2", ":", "3", "0">>, <<"3", ":", "3", "0">> }

\* The advanced tab: the bloom step first, then any number of added pour steps.
RECURSIVE AdvancedPourLists(_)
AdvancedPourLists(k) ==
    IF k = 0 THEN {<<>>}
    ELSE AdvancedPourLists(k - 1)
         \cup {Append(l, [waterAmount |-> w, duration |-> 30, isBloom |-> FALSE]) :
                 l \in {x \in AdvancedPourLists(k - 1) : Len(x) = k - 1}, w \in {50, 70}}

AdvancedStepLists ==
    {<<[waterAmount |-> 60, duration |-> 45, isBloom |-> TRUE]>> \o l :
        l \in AdvancedPourLists(MaxAdvancedPours)}

\* A direct call of createCustomRecipe (basic mode, or advanced mode without
\* steps, which falls back to the legacy schedule).
CreateCustomRecipe ==
    /\ recipe = NoRecipe
    /\ \E cw \in CoffeeWeights, ww \in WaterWeights, r \in Ratios, p \in 1..MaxPours,
          bm \in BloomMultipliers, md \in {"undefined", "basic", "advanced"},
          im \in {"coffee", "water"}, tt \in BrewTimes \cup {Undefined} :
          LET params == [coffeeWeight |-> IF im = "coffee" THEN cw ELSE UndefinedFrac,
                         waterWeight |-> IF im = "water" THEN ww ELSE UndefinedFrac,
                         ratio |-> r, pours |-> p, bloomMultiplier |-> bm,
                         mode |-> md, inputMode |-> im, totalBrewTimeSeconds |-> tt,
                         hasAdvancedSteps |-> FALSE, advancedSteps |-> <<>>]
          IN  /\ recipe' = createCustomRecipe(params, uuidCount)
              /\ uuidCount' = uuidCount + createCustomRecipeUuids(params)
              /\ requestedBrewTime' = tt
    /\ UNCHANGED <<custom, rescales>>

\* The custom recipe form is submitted.
OnSubmit ==
    /\ recipe = NoRecipe
    /\ \E cw \in CoffeeWeights, ww \in WaterWeights, r \in Ratios, p \in 1..MaxPours,
          bm \in BloomMultipliers, md \in {"basic", "advanced"},
          im \in {"coffee", "water"}, tt \in BrewTimeStrings, adv \in AdvancedStepLists :
          LET values == [coffeeWeight |-> IF im = "coffee" THEN cw ELSE UndefinedFrac,
                         waterWeight |-> IF im = "water" THEN ww ELSE UndefinedFrac,
                         ratio |-> r, pours |-> p, bloomMultiplier |-> bm,
                         mode |-> md, inputMode |-> im, totalBrewTime |-> tt,
                         advancedSteps |-> adv]
          IN  /\ recipe' = onSubmit(values, uuidCount)
              /\ uuidCount' = uuidCount + (IF md = "advanced" THEN 1 ELSE p + 3)
              /\ requestedBrewTime' = parseTimeToSeconds(tt)
    /\ UNCHANGED <<custom, rescales>>

\* A built-in recipe is selected.
SelectRecipe ==
    /\ recipe = NoRecipe
    /\ \E i \in 1..Len(predefinedRecipes) : recipe' = predefinedRecipes[i]
    /\ UNCHANGED <<custom, uuidCount, rescales, requestedBrewTime>>

\* The recipe is rescaled to a water weight: its own, or one typed in.
ApplyCustomWater ==
    /\ recipe # NoRecipe
    /\ rescales < MaxRescales
    /\ \E w \in {recipe.waterWeight, FInt(300)} :
          custom' = calculateRecipeWithCustomWater(recipe, w, uuidCount)
    /\ uuidCount' = uuidCount + 1 + Len(recipe.steps)
    /\ rescales' = rescales + 1
    /\ UNCHANGED <<recipe, requestedBrewTime>>

MaxChainedRescales ==
    3

\* The water weights typed into the brewing screen (parseInt, at least 100).
TypedWaterWeights ==
    {FInt(250), FInt(333), FInt(500)}

\* V60Brewing's debouncedApplyCustomWater: the selected recipe is replaced by
\* its rescaling, so the next rescale starts from the rescaled recipe.
V60ApplyCustomWater ==
    /\ recipe # NoRecipe
    /\ rescales < MaxChainedRescales
    /\ \E weight \in TypedWaterWeights :
          LET selected == IF custom # NoRecipe THEN custom ELSE recipe
          IN  custom' = calculateRecipeWithCustomWater(selected, weight, uuidCount)
    /\ uuidCount' = uuidCount + 1 + Len(recipe.steps)
    /\ rescales' = rescales + 1
    /\ UNCHANGED <<recipe, requestedBrewTime>>

(***************************************************************************)
(* The brewing screen (components/BrewingTimer.tsx, components/ui/timer.tsx) *)
(*                                                                         *)
(* The timer counts seconds and reports each change to the screen, whose   *)
(* effect then selects the current step.  V60Brewing.tsx holds the same     *)
(* effect, run only while brewing.                                         *)
(***************************************************************************)

MaxElapsed ==
    140

\* useState<Step | null>(null)
NoStep ==
    [id |-> 0, type |-> "null", targetTime |-> <<>>, targetTimeInSeconds |-> 0,
     targetWeight |-> 0, targetRatio |-> FInt(0)]

\* The recipe on screen: the rescaled one once a rescale was applied.
selectedRecipe ==
    IF custom # NoRecipe THEN custom ELSE recipe

\* The effect that finds the current step: the first i with
\* steps[i] <= t < steps[i + 1], else the last step if t has reached it, else
\* the first step.
CurrentStepEffect(steps, t, prevStep, prevNext) ==
    LET n       == Len(steps)
        matches == {i \in 1..(n - 1) : /\ t >= steps[i].targetTimeInSeconds
                                       /\ t < steps[i + 1].targetTimeInSeconds}
    IN  IF matches # {}
        THEN LET i == CHOOSE j \in matches : \A k \in matches : j <= k
             IN  [currentStep |-> steps[i], nextStepTime |-> steps[i + 1].targetTime]
        ELSE IF n > 0 /\ t >= steps[n].targetTimeInSeconds
        THEN [currentStep |-> steps[n],
              nextStepTime |-> formatTime(steps[n].targetTimeInSeconds + 60)]
        ELSE IF n > 0
        THEN [currentStep |-> steps[1],
              nextStepTime |-> IF n > 1 THEN steps[2].targetTime ELSE prevNext]
        ELSE [currentStep |-> prevStep, nextStepTime |-> prevNext]

\* The form values behind the custom recipes kept in localStorage.
BrewFormValues ==
    {[coffeeWeight |-> FInt(20), waterWeight |-> UndefinedFrac, ratio |-> FInt(16),
      pours |-> 2, bloomMultiplier |-> FInt(3), mode |-> md, inputMode |-> "coffee",
      totalBrewTime |-> tt, advancedSteps |-> adv] :
        md \in {"basic", "advanced"}, tt \in BrewTimeStrings, adv \in AdvancedStepLists}

\* The recipes the screen can be opened with: built-in ones and saved custom ones.
BrewRecipes ==
    {predefinedRecipes[i] : i \in 1..Len(predefinedRecipes)}
    \cup {onSubmit(values, UuidsAtLoad) : values \in BrewFormValues}

\* The mount effect: the recipe is found by its id and shown from its first step.
LoadRecipe ==
    /\ recipe = NoRecipe
    /\ \E r \in BrewRecipes :
          /\ recipe' = r
          /\ currentStep' = r.steps[1]
          /\ nextStepTime' = IF Len(r.steps) > 1 THEN r.steps[2].targetTime ELSE nextStepTime
    /\ currentTimeInSeconds' = 0
    /\ UNCHANGED <<custom, uuidCount, rescales, requestedBrewTime>>

\* handleTimeUpdate, then the current-step effect.
HandleTimeUpdate(timeInSeconds) ==
    LET found == CurrentStepEffect(selectedRecipe.steps, timeInSeconds,
                                   currentStep, nextStepTime)
    IN  /\ currentTimeInSeconds' = timeInSeconds
        /\ currentStep' = found.currentStep
        /\ nextStepTime' = found.nextStepTime
        /\ UNCHANGED recipeVars

\* The running timer counts one second.
TimerTick ==
    /\ recipe # NoRecipe
    /\ currentTimeInSeconds < MaxElapsed
    /\ HandleTimeUpdate(currentTimeInSeconds + 1)

\* resetTimer: back to initialTimeInSeconds.
ResetTimer ==
    /\ recipe # NoRecipe
    /\ currentTimeInSeconds > 0
    /\ HandleTimeUpdate(0)

(***************************************************************************)
(* queryMicrons (lib/coffee-utils.ts)                                      *)
(*                                                                         *)
(* The catalog is the parsed grinderData.json the loader hands over.  Names *)
(* and filters are character sequences, so that toLowerCase and includes   *)
(* are computed.  fit_score is an exact fraction.  An empty brewMethod      *)
(* stands for the empty string and for undefined: both are falsy.          *)
(***************************************************************************)

MaxMethods ==
    3

UpperCase ==
    <<"A", "B", "C", "D", "E", "F", "G", "H", "I", "J", "K", "L", "M", "N", "O", "P", "Q", "R", "S", "T", "U", "V", "W", "X", "Y", "Z">>

LowerCase ==
    <<"a", "b", "c", "d", "e", "f", "g", "h", "i", "j", "k", "l", "m", "n", "o", "p", "q", "r", "s", "t", "u", "v", "w", "x", "y", "z">>

\* String.prototype.toLowerCase
ToLowerCase(s) ==
    [i \in 1..Len(s) |->
        IF \E k \in 1..26 : UpperCase[k] = s[i]
        THEN LowerCase[CHOOSE k \in 1..26 : UpperCase[k] = s[i]]
        ELSE s[i]]

\* String.prototype.includes
Includes(s, sub) ==
    \E i \in 0..(Len(s) - Len(sub)) : SubSeq(s, i + 1, i + Len(sub)) = sub

\* start_microns / end_microns null
NullMicrons ==
    0 - 1

\* fit_score before the scoring pass (the field is optional)
NoScore ==
    [n |-> 0, d |-> 0]

\* The NaN a zero-width range gives (0 / 0)
ScoreNaN ==
    [n |-> 1, d |-> 0]

\* !setting: null, the empty string and 0 are falsy
Falsy(setting) ==
    \/ setting.kind = "null"
    \/ setting.kind = "str" /\ setting.s = <<>>
    \/ setting.kind = "num" /\ setting.n = 0

STANDARD_BREW_METHODS ==
    << [key |-> <<"t", "u", "r", "k", "i", "s", "h">>,
        name |-> <<"T", "u", "r", "k", "i", "s", "h">>,
        min_microns |-> 40, max_microns |-> 220, grind_category |-> "Extra Fine"],
       [key |-> <<"e", "s", "p", "r", "e", "s", "s", "o">>,
        name |-> <<"E", "s", "p", "r", "e", "s", "s", "o">>,
        min_microns |-> 180, max_microns |-> 380, grind_category |-> "Fine"],
       [key |-> <<"a", "e", "r", "o", "p", "r", "e", "s", "s">>,
        name |-> <<"A", "e", "r", "o", "p", "r", "e", "s", "s">>,
        min_microns |-> 320, max_microns |-> 960, grind_category |-> "Medium Fine"],
       [key |-> <<"p", "o", "u", "r", "o", "v", "e", "r">>,
        name |-> <<"P", "o", "u", "r", " ", "O", "v", "e", "r">>,
        min_microns |-> 400, max_microns |-> 800, grind_category |-> "Medium"],
       [key |-> <<"f", "r", "e", "n", "c", "h", "p", "r", "e", "s", "s">>,
        name |-> <<"F", "r", "e", "n", "c", "h", " ", "P", "r", "e", "s", "s">>,
        min_microns |-> 800, max_microns |-> 1200, grind_category |-> "Coarse"],
       [key |-> <<"c", "o", "l", "d", "b", "r", "e", "w">>,
        name |-> <<"C", "o", "l", "d", " ", "B", "r", "e", "w">>,
        min_microns |-> 800, max_microns |-> 1600, grind_category |-> "Coarse"] >>

\* The brew methods of the catalog's simple-format grinder are drawn from these.
SimpleMethods ==
    { [id |-> 1, grinder_id |-> 1, method_name |-> <<"V", "6", "0">>,
       start_microns |-> 400, end_microns |-> 700,
       start_setting |-> Str(<<"2", "0">>), end_setting |-> Str(<<"3", "0">>),
       setting_format |-> "simple", grind_category |-> "Medium Fine", fit_score |-> NoScore],
      [id |-> 2, grinder_id |-> 1, method_name |-> <<"F", "i", "l", "t", "e", "r">>,
       start_microns |-> 300, end_microns |-> 900,
       start_setting |-> Str(<<"1", "0">>), end_setting |-> Str(<<"4", "0">>),
       setting_format |-> "simple", grind_category |-> "Medium", fit_score |-> NoScore],
      [id |-> 3, grinder_id |-> 1, method_name |-> <<"E", "s", "p", "r", "e", "s", "s", "o">>,
       start_microns |-> 180, end_microns |-> 380,
       start_setting |-> Str(<<"5">>), end_setting |-> Str(<<"1", "2">>),
       setting_format |-> "simple", grind_category |-> "Fine", fit_score |-> NoScore],
      [id |-> 4, grinder_id |-> 1, method_name |-> <<"P", "o", "u", "r", " ", "O", "v", "e", "r">>,
       start_microns |-> 400, end_microns |-> 700,
       start_setting |-> Str(<<"2", "2">>), end_setting |-> Str(<<"2", "8">>),
       setting_format |-> "simple", grind_category |-> "Medium Fine", fit_score |-> NoScore],
      [id |-> 5, grinder_id |-> 1, method_name |-> <<"C", "u", "p", "p", "i", "n", "g">>,
       start_microns |-> NullMicrons, end_microns |-> NullMicrons,
       start_setting |-> Null, end_setting |-> Null,
       setting_format |-> "simple", grind_category |-> "Medium", fit_score |-> NoScore] }

ComplexMethods ==
    << [id |-> 6, grinder_id |-> 2, method_name |-> <<"V", "6", "0">>,
       start_microns |-> 400, end_microns |-> 700,
       start_setting |-> Str(<<"0", ".", "5", ".", "0">>), end_setting |-> Str(<<"1", ".", "2", ".", "1">>),
       setting_format |-> "complex", grind_category |-> "Medium Fine", fit_score |-> NoScore],
       [id |-> 7, grinder_id |-> 2, method_name |-> <<"F", "r", "e", "n", "c", "h", " ", "P", "r", "e", "s", "s">>,
       start_microns |-> 800, end_microns |-> 1200,
       start_setting |-> Str(<<"1", ".", "5", ".", "0">>), end_setting |-> Str(<<"1", ".", "9", ".", "1">>),
       setting_format |-> "complex", grind_category |-> "Coarse", fit_score |-> NoScore] >>

\* The sequences of at most k different methods.
RECURSIVE MethodLists(_)
MethodLists(k) ==
    IF k = 0 THEN {<<>>}
    ELSE MethodLists(k - 1)
         \cup {Append(l, m) : l \in {x \in MethodLists(k - 1) : Len(x) = k - 1},
                              m \in SimpleMethods}

DistinctMethodLists ==
    {l \in MethodLists(MaxMethods) : \A i, j \in 1..Len(l) : i # j => l[i] # l[j]}

SimpleGrinder(methods) ==
    [id |-> 1, name |-> <<"K", "m", "a", "x">>, min_microns |-> 200, max_microns |-> 1200,
     clicks_per_number |-> 10, brew_methods |-> methods]

ComplexGrinder ==
    [id |-> 2, name |-> <<"K", "p", "l", "u", "s">>, min_microns |-> 200, max_microns |-> 1200,
     clicks_per_number |-> 2, brew_methods |-> ComplexMethods]

GrinderNames ==
    { <<>>, <<"k">>, <<"P", "L", "U">>, <<"M", "a", "x">>, <<"z", "z">> }

BrewMethodFilters ==
    { <<>>, <<"v", "6", "0">>, <<"P", "o", "u", "r", " ", "O", "v", "e", "r">>, <<"p", "o", "u", "r", "o", "v", "e", "r">>, <<"E", "S", "P", "R", "E", "S", "S", "O">> }

TargetMicrons ==
    {100, 200, 250, 300, 450, 500, 550, 600, 800, 1000, 2000}

NoCatalog ==
    [grinders |-> <<>>]

NoQuery ==
    [called |-> FALSE]

\* data.grinders.find(g => g.name.toLowerCase().includes(grinderName.toLowerCase())):
\* the index of the first such grinder, 0 if there is none.
FindGrinderCaseSensitive(data, grinderName) ==
    LET found == {i \in 1..Len(data.grinders) : Includes(data.grinders[i].name, grinderName)}
    IN  IF found = {} THEN 0 ELSE CHOOSE i \in found : \A k \in found : i <= k

FindGrinder(data, grinderName) ==
    LET found == {i \in 1..Len(data.grinders) :
                     Includes(ToLowerCase(data.grinders[i].name), ToLowerCase(grinderName))}
    IN  IF found = {} THEN 0 ELSE CHOOSE i \in found : \A k \in found : i <= k

\* The predicate of grinder.brew_methods.filter
MethodMatches(method, targetMicrons, brewMethod) ==
    IF brewMethod # <<>> /\ ~Includes(ToLowerCase(method.method_name), ToLowerCase(brewMethod))
    THEN FALSE
    ELSE /\ method.start_microns # NullMicrons
         /\ method.end_microns # NullMicrons
         /\ targetMicrons >= method.start_microns
         /\ targetMicrons <= method.end_microns

\* Array.prototype.filter
RECURSIVE FilterMethods(_, _, _)
FilterMethods(methods, targetMicrons, brewMethod) ==
    IF methods = <<>> THEN <<>>
    ELSE (IF MethodMatches(Head(methods), targetMicrons, brewMethod)
          THEN <<Head(methods)>> ELSE <<>>)
         \o FilterMethods(Tail(methods), targetMicrons, brewMethod)

NoBounds ==
    [minSetting |-> Null, maxSetting |-> Null, settingFormat |-> "simple",
     minMicrons |-> NullMicrons, maxMicrons |-> NullMicrons]

\* One pass of the loop over all brew methods that finds the extreme settings.
\* The grinders of the model keep one format each, so a simple method meets
\* only numbers in minSetting and maxSetting.
ScanStep(acc, method) ==
    IF \/ Falsy(method.start_setting) \/ Falsy(method.end_setting)
       \/ method.start_microns = NullMicrons \/ method.end_microns = NullMicrons
    THEN acc
    ELSE IF method.setting_format = "simple"
    THEN LET startVal == SimpleSettingNum(method.start_setting)
             endVal   == SimpleSettingNum(method.end_setting)
             lower    == acc.minSetting = Null
                         \/ (startVal # NaN /\ acc.minSetting.n # NaN
                             /\ startVal < acc.minSetting.n)
             higher   == acc.maxSetting = Null
                         \/ (endVal # NaN /\ acc.maxSetting.n # NaN
                             /\ endVal > acc.maxSetting.n)
         IN  [acc EXCEPT
                !.minSetting = IF lower THEN Num(startVal) ELSE @,
                !.minMicrons = IF lower THEN method.start_microns ELSE @,
                !.maxSetting = IF higher THEN Num(endVal) ELSE @,
                !.maxMicrons = IF higher THEN method.end_microns ELSE @]
    ELSE [acc EXCEPT
            !.settingFormat = "complex",
            !.minSetting = IF @ = Null THEN method.start_setting ELSE @,
            !.minMicrons = IF acc.minSetting = Null THEN method.start_microns ELSE @,
            !.maxSetting = IF @ = Null THEN method.end_setting ELSE @,
            !.maxMicrons = IF acc.maxSetting = Null THEN method.end_microns ELSE @]

RECURSIVE ScanMethods(_, _)
ScanMethods(acc, methods) ==
    IF methods = <<>> THEN acc
    ELSE ScanMethods(ScanStep(acc, Head(methods)), Tail(methods))

\* The setting bounds: those of the first matching method, else the scan.
SettingBounds(grinder, matchingMethods) ==
    IF Len(matchingMethods) > 0
    THEN LET method == matchingMethods[1]
         IN  IF /\ ~Falsy(method.start_setting) /\ ~Falsy(method.end_setting)
                /\ method.start_microns # NullMicrons /\ method.end_microns # NullMicrons
             THEN [minSetting |-> method.start_setting, maxSetting |-> method.end_setting,
                   settingFormat |-> method.setting_format,
                   minMicrons |-> method.start_microns, maxMicrons |-> method.end_microns]
             ELSE NoBounds
    ELSE ScanMethods(NoBounds, grinder.brew_methods)

\* The synthetic brew methods of the standard-method fallback.
RECURSIVE StandardMethods(_, _, _, _, _)
StandardMethods(table, targetMicrons, brewMethod, grinderId, settingFormat) ==
    IF table = <<>> THEN <<>>
    ELSE LET methodData == Head(table)
         IN  (IF /\ targetMicrons >= methodData.min_microns
                 /\ targetMicrons <= methodData.max_microns
                 /\ (brewMethod = <<>> \/ Includes(methodData.key, ToLowerCase(brewMethod)))
              THEN << [id |-> 0 - 1, grinder_id |-> grinderId,
                       method_name |-> methodData.name,
                       start_microns |-> methodData.min_microns,
                       end_microns |-> methodData.max_microns,
                       start_setting |-> Null, end_setting |-> Null,
                       setting_format |-> settingFormat,
                       grind_category |-> methodData.grind_category,
                       fit_score |-> NoScore] >>
              ELSE <<>>)
             \o StandardMethods(Tail(table), targetMicrons, brewMethod, grinderId, settingFormat)

\* fitScore of one method: |target - mid| / range, with the two bonuses.
FitScore(method, targetMicrons) ==
    LET methodMin   == IF method.start_microns = NullMicrons THEN 0 ELSE method.start_microns
        methodMax   == IF method.end_microns = NullMicrons THEN 0 ELSE method.end_microns
        methodRange == methodMax - methodMin
        twiceOff    == Abs(2 * targetMicrons - 2 * methodMin - methodRange)
        fitScore    == IF methodRange > 0 THEN Frac(twiceOff, 2 * methodRange)
                       ELSE IF methodRange < 0 THEN Frac(0 - twiceOff, 0 - (2 * methodRange))
                       ELSE ScoreNaN
        methodName  == ToLowerCase(method.method_name)
        bonus       == \/ /\ Includes(methodName, <<"v", "6", "0">>)
                          /\ targetMicrons >= 450 /\ targetMicrons <= 550
                       \/ /\ Includes(methodName, <<"e", "s", "p", "r", "e", "s", "s", "o">>)
                          /\ targetMicrons >= 200 /\ targetMicrons <= 300
    IN  IF fitScore = ScoreNaN THEN ScoreNaN
        ELSE IF bonus THEN FSub(fitScore, Frac(3, 10))
        ELSE fitScore

\* a.fit_score || 0
ScoreOrZero(method) ==
    IF method.fit_score \in {ScoreNaN, NoScore} THEN FInt(0) ELSE method.fit_score

\* The comparator of the sort is negative, zero or positive.
FLess(a, b) ==
    a.n * b.d < b.n * a.d

InsertByScoreBeforeTies(sorted, method) ==
    LET before == {i \in 1..Len(sorted) : FLess(ScoreOrZero(sorted[i]), ScoreOrZero(method))}
        k      == Cardinality(before)
    IN  SubSeq(sorted, 1, k) \o <<method>> \o SubSeq(sorted, k + 1, Len(sorted))

\* Array.prototype.sort is stable: a method goes behind those it ties with.
InsertByScore(sorted, method) ==
    LET before == {i \in 1..Len(sorted) : ~FLess(ScoreOrZero(method), ScoreOrZero(sorted[i]))}
        k      == Cardinality(before)
    IN  SubSeq(sorted, 1, k) \o <<method>> \o SubSeq(sorted, k + 1, Len(sorted))

RECURSIVE SortByScore(_, _)
SortByScore(sorted, methods) ==
    IF methods = <<>> THEN sorted
    ELSE SortByScore(InsertByScore(sorted, Head(methods)), Tail(methods))

\* queryMicrons: the result, or the thrown error.
queryMicrons(data, params) ==
    LET g == FindGrinder(data, params.grinderName)
    IN  IF g = 0
        THEN [called |-> TRUE, params |-> params, error |-> TRUE]
        ELSE
        LET grinder       == data.grinders[g]
            targetMicrons == params.targetMicrons
            matched       == FilterMethods(grinder.brew_methods, targetMicrons,
                                           params.brewMethod)
            bounds        == SettingBounds(grinder, matched)
            candidates    == IF Len(matched) = 0
                             THEN StandardMethods(STANDARD_BREW_METHODS, targetMicrons,
                                                  params.brewMethod, grinder.id,
                                                  bounds.settingFormat)
                             ELSE matched
            scored        == [i \in 1..Len(candidates) |->
                                 [candidates[i] EXCEPT
                                    !.fit_score = FitScore(candidates[i], targetMicrons)]]
            calculatedSetting ==
                IF /\ bounds.minSetting # Null /\ bounds.maxSetting # Null
                   /\ bounds.minMicrons # NullMicrons /\ bounds.maxMicrons # NullMicrons
                THEN mapMicronsToSetting(targetMicrons, bounds.minSetting, bounds.maxSetting,
                                         bounds.minMicrons, bounds.maxMicrons,
                                         bounds.settingFormat, grinder.clicks_per_number)
                ELSE Null
        IN  [called |-> TRUE, params |-> params, error |-> FALSE,
             grinder |-> grinder,
             target_microns |-> targetMicrons,
             calculated_setting |-> calculatedSetting,
             setting_format |-> bounds.settingFormat,
             grind_category |-> getGrindCategory(targetMicrons),
             matching_methods |-> SortByScore(<<>>, scored)]

\* A query from the calculator.  queryMicrons keeps nothing between calls, so
\* a behaviour follows one query on the catalog it loaded.
QueryMicrons ==
    /\ catalog # NoCatalog
    /\ queryResult = NoQuery
    /\ \E grinderName \in GrinderNames, targetMicrons \in TargetMicrons,
          brewMethod \in BrewMethodFilters :
          queryResult' = queryMicrons(catalog, [grinderName |-> grinderName,
                                                targetMicrons |-> targetMicrons,
                                                brewMethod |-> brewMethod])
    /\ UNCHANGED catalog

(***************************************************************************)
(* The calculator (components/Calculator.tsx, components/Calibration.tsx,  *)
(* types/calculator.ts)                                                    *)
(*                                                                         *)
(* A handler runs with the state of the render it was created in: a state  *)
(* it sets is visible to the code that follows only after the next render, *)
(* so calculateSettings called from a handler reads the values from before *)
(* the handler's own updates.  An effect that a handler's update triggers   *)
(* runs right after the render and is part of the action.  The timestamp    *)
(* and lastUpdated fields are left out: nothing reads them.                *)
(***************************************************************************)

MaxCalibrationEdits ==
    4

\* Infinity and -Infinity of a division by zero
Infinity ==
    1500000000

NegInfinity ==
    0 - 1500000000

IsFinite(x) ==
    x \notin {NaN, Infinity, NegInfinity}

GRINDER_MODELS ==
    << [id |-> "q2", name |-> "Q2 S & J & JE", adjustmentType |-> "Internal",
        numbersPerRotation |-> 10, clicksPerRotation |-> 30, clicksPerNumber |-> 3,
        mmPerClick |-> Frac(25, 1000), zeroPointMicrons |-> 250],
       [id |-> "jx-pro", name |-> "JX-Pro S & JE-Plus", adjustmentType |-> "Top",
        numbersPerRotation |-> 10, clicksPerRotation |-> 40, clicksPerNumber |-> 4,
        mmPerClick |-> Frac(125, 10000), zeroPointMicrons |-> 200],
       [id |-> "x-pro", name |-> "X-Pro S & X-Ultra", adjustmentType |-> "External",
        numbersPerRotation |-> 6, clicksPerRotation |-> 60, clicksPerNumber |-> 10,
        mmPerClick |-> Frac(125, 10000), zeroPointMicrons |-> 200],
       [id |-> "j-max", name |-> "J-Max S", adjustmentType |-> "External",
        numbersPerRotation |-> 9, clicksPerRotation |-> 90, clicksPerNumber |-> 10,
        mmPerClick |-> Frac(88, 10000), zeroPointMicrons |-> 200],
       [id |-> "j-ultra", name |-> "J-Ultra", adjustmentType |-> "External",
        numbersPerRotation |-> 10, clicksPerRotation |-> 100, clicksPerNumber |-> 10,
        mmPerClick |-> Frac(8, 1000), zeroPointMicrons |-> 200],
       [id |-> "k-series", name |-> "K-Plus & K-Pro & K-Max & ZP6 Special",
        adjustmentType |-> "External",
        numbersPerRotation |-> 9, clicksPerRotation |-> 90, clicksPerNumber |-> 10,
        mmPerClick |-> Frac(22, 1000), zeroPointMicrons |-> 200],
       [id |-> "k-ultra", name |-> "K-Ultra", adjustmentType |-> "External",
        numbersPerRotation |-> 10, clicksPerRotation |-> 100, clicksPerNumber |-> 10,
        mmPerClick |-> Frac(2, 100), zeroPointMicrons |-> 200] >>

DEFAULT_MODEL ==
    GRINDER_MODELS[1]

BREW_METHODS ==
    << [name |-> "Turkish", minMicrons |-> 200, maxMicrons |-> 300],
       [name |-> "Espresso", minMicrons |-> 300, maxMicrons |-> 400],
       [name |-> "AeroPress/Moka-Pot/Drip", minMicrons |-> 500, maxMicrons |-> 700],
       [name |-> "Pour Over/Siphon", minMicrons |-> 800, maxMicrons |-> 1000],
       [name |-> "French Press", minMicrons |-> 1000, maxMicrons |-> 1360] >>

\* The five parameters customSettings copies from a model.
ModelSettings(model) ==
    [numbersPerRotation |-> model.numbersPerRotation,
     clicksPerRotation |-> model.clicksPerRotation,
     clicksPerNumber |-> model.clicksPerNumber,
     mmPerClick |-> model.mmPerClick,
     zeroPointMicrons |-> model.zeroPointMicrons]

\* const settings = showAdvanced ? customSettings : selectedModel
SettingsInUse(advanced, customized, model) ==
    IF advanced THEN customized ELSE ModelSettings(model)

\* useState<GrindSetting | null>(null), useState<CalibrationData | null>(null)
NoSettings ==
    [rotations |-> 0, numbers |-> 0, clicks |-> 0, microns |-> 0, shown |-> FALSE]

NoCalibration ==
    [modelId |-> "none", points |-> <<>>]

NoPoint ==
    [rotations |-> 0, numbers |-> 0, clicks |-> 0, measuredMicrons |-> 0]

NoEvent ==
    [kind |-> "none", point |-> NoPoint, before |-> <<>>]

\* The models picked in the Select, the values typed into the target field,
\* the values typed into an advanced setting, and the calibration points
\* entered (microns at or above every model's zero point).
ModelChoices ==
    {"q2", "x-pro", "k-ultra"}

TypedMicrons ==
    {0, 250, 500, 1200}

TypedSettingValues ==
    {0, 5}

CalibrationPoints ==
    { [rotations |-> r, numbers |-> 0, clicks |-> r, measuredMicrons |-> m] :
          r \in {0, 1, 2}, m \in {300, 600} }

\* [...points].sort((a, b) => a.measuredMicrons - b.measuredMicrons): stable.
InsertByMicrons(sorted, point) ==
    LET k == Cardinality({i \in 1..Len(sorted) :
                             sorted[i].measuredMicrons <= point.measuredMicrons})
    IN  SubSeq(sorted, 1, k) \o <<point>> \o SubSeq(sorted, k + 1, Len(sorted))

RECURSIVE SortByMicrons(_, _)
SortByMicrons(sorted, points) ==
    IF points = <<>> THEN sorted
    ELSE SortByMicrons(InsertByMicrons(sorted, Head(points)), Tail(points))

\* The two calibration points the target is interpolated between.
Bracket(points, wanted) ==
    LET sortedPoints == SortByMicrons(<<>>, points)
        around == {i \in 1..(Len(sortedPoints) - 1) :
                      /\ sortedPoints[i].measuredMicrons <= wanted
                      /\ sortedPoints[i + 1].measuredMicrons >= wanted}
        first  == CHOOSE i \in around : \A k \in around : i <= k
    IN  IF around = {}
        THEN [lower |-> sortedPoints[1], upper |-> sortedPoints[Len(sortedPoints)]]
        ELSE [lower |-> sortedPoints[first], upper |-> sortedPoints[first + 1]]

\* rotations * clicksPerRotation + numbers * clicksPerNumber + clicks
PointClicks(point, bundle) ==
    point.rotations * bundle.clicksPerRotation
        + point.numbers * bundle.clicksPerNumber + point.clicks

\* Math.round(a / b) when b may be 0: NaN for 0/0, an infinity otherwise.
RoundQuotient(a, b) ==
    IF b > 0 THEN RoundDiv(a, b)
    ELSE IF b < 0 THEN RoundDiv(0 - a, 0 - b)
    ELSE IF a = 0 THEN NaN
    ELSE IF a > 0 THEN Infinity
    ELSE NegInfinity

\* Math.round(lowerClicks + ratio * (upperClicks - lowerClicks)) with
\* ratio = (micronsTarget - lower.measuredMicrons) / (upper - lower measuredMicrons)
InterpolatedClicks(lower, upper, bundle, wanted) ==
    LET lowerClicks == PointClicks(lower, bundle)
        upperClicks == PointClicks(upper, bundle)
        span        == upper.measuredMicrons - lower.measuredMicrons
        offset      == wanted - lower.measuredMicrons
        rise        == upperClicks - lowerClicks
    IN  IF span # 0 THEN RoundDiv(lowerClicks * span + offset * rise, span)
        ELSE IF offset = 0 \/ rise = 0 THEN NaN
        ELSE IF (offset > 0) = (rise > 0) THEN Infinity
        ELSE NegInfinity

\* Math.floor(a / b)
FloorQuotient(a, b) ==
    IF ~IsFinite(a) THEN (IF b = 0 THEN NaN ELSE a)
    ELSE IF b > 0 THEN a \div b
    ELSE IF a = 0 THEN NaN
    ELSE IF a > 0 THEN Infinity
    ELSE NegInfinity

\* a % b
Remainder(a, b) ==
    IF ~IsFinite(a) \/ b = 0 THEN NaN ELSE JsMod(a, b)

\* rotations, numbers and clicks of a click count
SplitClicks(totalClicks, bundle, wanted) ==
    LET remainingClicks == Remainder(totalClicks, bundle.clicksPerRotation)
    IN  [rotations |-> FloorQuotient(totalClicks, bundle.clicksPerRotation),
         numbers |-> FloorQuotient(remainingClicks, bundle.clicksPerNumber),
         clicks |-> Remainder(remainingClicks, bundle.clicksPerNumber),
         microns |-> wanted, shown |-> TRUE]

\* calculateSettings: the settings it sets.
calculateSettings(bundle, calibration, wanted) ==
    IF calibration # NoCalibration /\ Len(calibration.points) >= 2
    THEN LET pair == Bracket(calibration.points, wanted)
         IN  SplitClicks(InterpolatedClicks(pair.lower, pair.upper, bundle, wanted),
                         bundle, wanted)
    ELSE LET micronsPerClick   == FMul(bundle.mmPerClick, FInt(1000))
             distance          == wanted - bundle.zeroPointMicrons
             adjustmentMicrons == IF distance > 0 THEN distance ELSE 0
             totalClicks       == RoundQuotient(adjustmentMicrons * micronsPerClick.d,
                                                micronsPerClick.n)
         IN  SplitClicks(totalClicks, bundle, wanted)

\* The settings a handler's call of calculateSettings sets: it reads the state
\* of the render the handler belongs to.
Recalculated ==
    calculateSettings(SettingsInUse(showAdvanced, customSettings, selectedModel),
                      calculatorCalibration, micronsTarget)

\* Target microns onChange: Number(value) is a number for every value typed.
TargetMicronsChange ==
    /\ \E numValue \in TypedMicrons : micronsTarget' = numValue
    /\ settings' = Recalculated
    /\ lastEvent' = [NoEvent EXCEPT !.kind = "target"]
    /\ UNCHANGED <<selectedModel, showAdvanced, customSettings, calculatorCalibration,
                   calibrationData, localStorage, calibrationEdits>>

\* handleBrewMethodSelect
HandleBrewMethodSelect ==
    /\ \E k \in 1..Len(BREW_METHODS) :
          micronsTarget' = RoundDiv(BREW_METHODS[k].minMicrons + BREW_METHODS[k].maxMicrons, 2)
    /\ settings' = Recalculated
    /\ lastEvent' = [NoEvent EXCEPT !.kind = "brewMethod"]
    /\ UNCHANGED <<selectedModel, showAdvanced, customSettings, calculatorCalibration,
                   calibrationData, localStorage, calibrationEdits>>

\* The Calculate button (disabled below the zero point) or the Enter key.
Calculate ==
    /\ settings' = Recalculated
    /\ lastEvent' = [NoEvent EXCEPT !.kind = "calculate"]
    /\ UNCHANGED <<micronsTarget, selectedModel, showAdvanced, customSettings,
                   calculatorCalibration, calibrationData, localStorage, calibrationEdits>>

\* The Advanced Settings collapsible is opened or closed.
ToggleAdvanced ==
    /\ showAdvanced' = ~showAdvanced
    /\ lastEvent' = [NoEvent EXCEPT !.kind = "advanced"]
    /\ UNCHANGED <<micronsTarget, settings, selectedModel, customSettings,
                   calculatorCalibration, calibrationData, localStorage, calibrationEdits>>

\* An advanced setting is edited: the other fields stay as they are.
CustomSettingsChange ==
    /\ showAdvanced
    /\ \E value \in TypedSettingValues :
          \/ customSettings' = [customSettings EXCEPT !.numbersPerRotation = value]
          \/ customSettings' = [customSettings EXCEPT !.clicksPerRotation = value]
          \/ customSettings' = [customSettings EXCEPT !.clicksPerNumber = value]
    /\ lastEvent' = [NoEvent EXCEPT !.kind = "custom"]
    /\ UNCHANGED <<micronsTarget, settings, selectedModel, showAdvanced,
                   calculatorCalibration, calibrationData, localStorage, calibrationEdits>>

\* handleCalibrationUpdate, called by the Calibration component with the data
\* it stored: the settings it sets, read in the render given.
HandleCalibrationUpdate(model, customized) ==
    IF micronsTarget > 0
    THEN calculateSettings(SettingsInUse(showAdvanced, customized, model),
                           calculatorCalibration, micronsTarget)
    ELSE settings

\* handleModelChange, then the Calibration effect for the new model id, which
\* loads the saved points and reports them.
HandleModelChange ==
    /\ \E modelId \in ModelChoices \ {selectedModel.id} :
          LET found == {k \in 1..Len(GRINDER_MODELS) : GRINDER_MODELS[k].id = modelId}
              model == IF found = {} THEN DEFAULT_MODEL
                       ELSE GRINDER_MODELS[CHOOSE k \in found : TRUE]
              loaded == IF localStorage[modelId] # NoCalibration THEN localStorage[modelId]
                        ELSE [modelId |-> modelId, points |-> <<>>]
          IN  /\ selectedModel' = model
              /\ customSettings' = ModelSettings(model)
              /\ calibrationData' = loaded
              /\ calculatorCalibration' = loaded
              /\ settings' = HandleCalibrationUpdate(model, ModelSettings(model))
    /\ lastEvent' = [NoEvent EXCEPT !.kind = "model"]
    /\ UNCHANGED <<micronsTarget, showAdvanced, localStorage, calibrationEdits>>

\* points.filter(p => p.rotations !== point.rotations || p.numbers !== ... )
RECURSIVE OtherPoints(_, _)
OtherPoints(points, point) ==
    IF points = <<>> THEN <<>>
    ELSE (IF \/ Head(points).rotations # point.rotations
             \/ Head(points).numbers # point.numbers
             \/ Head(points).clicks # point.clicks
          THEN <<Head(points)>> ELSE <<>>) \o OtherPoints(Tail(points), point)

addCalibrationPointAppend(data, point) ==
    [data EXCEPT !.points = Append(data.points, point)]

\* addCalibrationPoint: the new calibration data
addCalibrationPoint(data, point) ==
    [data EXCEPT !.points = Append(OtherPoints(data.points, point), point)]

\* removeCalibrationPoint: the new calibration data
removeCalibrationPoint(data, point) ==
    [data EXCEPT !.points = OtherPoints(data.points, point)]

\* Add Calibration Point (manual entry or a wizard step)
AddCalibrationPoint ==
    /\ calibrationEdits < MaxCalibrationEdits
    /\ \E point \in CalibrationPoints :
          LET newData == addCalibrationPoint(calibrationData, point)
          IN  /\ calibrationData' = newData
              /\ localStorage' = [localStorage EXCEPT ![selectedModel.id] = newData]
              /\ calculatorCalibration' = newData
              /\ lastEvent' = [kind |-> "add", point |-> point,
                               before |-> calibrationData.points]
    /\ settings' = HandleCalibrationUpdate(selectedModel, customSettings)
    /\ calibrationEdits' = calibrationEdits + 1
    /\ UNCHANGED <<micronsTarget, selectedModel, showAdvanced, customSettings>>

\* The Remove button of a listed point
RemoveCalibrationPoint ==
    /\ calibrationEdits < MaxCalibrationEdits
    /\ \E k \in 1..Len(calibrationData.points) :
          LET point   == calibrationData.points[k]
              newData == removeCalibrationPoint(calibrationData, point)
          IN  /\ calibrationData' = newData
              /\ localStorage' = [localStorage EXCEPT ![selectedModel.id] = newData]
              /\ calculatorCalibration' = newData
              /\ lastEvent' = [kind |-> "remove", point |-> point,
                               before |-> calibrationData.points]
    /\ settings' = HandleCalibrationUpdate(selectedModel, customSettings)
    /\ calibrationEdits' = calibrationEdits + 1
    /\ UNCHANGED <<micronsTarget, selectedModel, showAdvanced, customSettings>>

\* localStorage without a saved calibration
NoStorage ==
    [modelId \in {GRINDER_MODELS[k].id : k \in 1..Len(GRINDER_MODELS)} |-> NoCalibration]

(***************************************************************************)
(* The brewing screen, step by step (components/BrewingTimer.tsx,          *)
(* components/ui/timer.tsx)                                                *)
(*                                                                         *)
(* Time passes in quarter seconds.  An event handler, a timer callback or  *)
(* a run of the step and water effect is one step, taken with the render   *)
(* that follows it and with the Timer's effects of that render.  The step  *)
(* and water effect runs before anything else happens.  Every render of    *)
(* the screen makes a new handleTimeUpdate and a new debounced function:   *)
(* neither is memoised.                                                    *)
(***************************************************************************)

MaxBrewSeconds ==
    50

MaxWaterEdits ==
    2

\* debounce(..., 500), in quarter seconds
DebounceWait ==
    2

\* setInterval(..., 1000), in quarter seconds
TickInterval ==
    4

\* No setTimeout(0) of the notify effect is pending.
NoTimeout ==
    [pending |-> FALSE, time |-> 0]

\* What parseInt makes of the text typed into the water input.
TypedWaterValues ==
    {NaN, 50, 250, 300}

\* The recipes the screen is opened with: a built-in one, and the saved custom
\* ones whose last step starts within the time brewed.
ScreenRecipes ==
    {predefinedRecipes[1]}
    \cup {r \in BrewRecipes : r.steps[Len(r.steps)].targetTimeInSeconds < MaxBrewSeconds}

\* The debounced functions of earlier renders: their timers stay pending, and
\* no handler calls them again.
Orphaned(timers) ==
    [i \in 1..Len(timers) |-> [timers[i] EXCEPT !.current = FALSE]]

\* currentStepIndex of the step and water effect, counted from 1.
CurrentStepIndex(steps, t) ==
    LET n       == Len(steps)
        matches == {i \in 1..(n - 1) : /\ t >= steps[i].targetTimeInSeconds
                                       /\ t < steps[i + 1].targetTimeInSeconds}
    IN  IF matches # {}
        THEN CHOOSE j \in matches : \A k \in matches : j <= k
        ELSE IF n > 0 /\ t >= steps[n].targetTimeInSeconds
        THEN n
        ELSE 1

\* The water of the first k steps, drawdown steps left out.
RECURSIVE CompletedWater(_, _)
CompletedWater(steps, k) ==
    IF k = 0
    THEN 0
    ELSE CompletedWater(steps, k - 1)
         + (IF steps[k].type # "drawdown" THEN steps[k].targetWeight ELSE 0)

\* The water of the current step: all of it from ten seconds in, before that
\* Math.round(targetWeight * (seconds in) / 10).  step is the currentStep of
\* the render the effect belongs to.
WaterInCurrentStep(step, t) ==
    IF step = NoStep \/ step.type = "drawdown"
    THEN 0
    ELSE IF t >= step.targetTimeInSeconds + 10
    THEN step.targetWeight
    ELSE IF t > step.targetTimeInSeconds
    THEN RoundDiv(step.targetWeight * (t - step.targetTimeInSeconds), 10)
    ELSE 0

\* calculatedWaterPoured of the step and water effect.
CalculatedWaterPoured(steps, t, step) ==
    CompletedWater(steps, CurrentStepIndex(steps, t) - 1) + WaterInCurrentStep(step, t)

\* The mount effect: the recipe is found by its id and shown from its first
\* step; the step and water effect runs in the render that follows.
Mount ==
    /\ recipe = NoRecipe
    /\ \E r \in ScreenRecipes :
          /\ recipe' = r
          /\ currentStep' = r.steps[1]
          /\ nextStepTime' = IF Len(r.steps) > 1 THEN r.steps[2].targetTime ELSE nextStepTime
          /\ waterWeightInput' = r.waterWeight
    /\ currentTimeInSeconds' = 0
    /\ totalWaterPoured' = 0
    /\ effectDue' = TRUE
    /\ UNCHANGED <<custom, uuidCount, rescales, requestedBrewTime, timerSeconds,
                   isRunning, prevTimeRef, timeoutId, untilTick, isTimerActive,
                   debounceTimers, sinceEdit, recomputed, waterEdits>>

\* The step and water effect.  It reads the currentStep of its render and sets
\* the one found; it runs again when currentStep has changed.  A render of the
\* screen hands the Timer a new onTimeUpdate, and the cleanup of the notify
\* effect clears the pending timeout.
StepAndWaterEffect ==
    /\ effectDue
    /\ LET steps    == selectedRecipe.steps
           found    == CurrentStepEffect(steps, currentTimeInSeconds, currentStep, nextStepTime)
           poured   == CalculatedWaterPoured(steps, currentTimeInSeconds, currentStep)
           rendered == \/ found.currentStep # currentStep
                       \/ found.nextStepTime # nextStepTime
                       \/ poured # totalWaterPoured
       IN  /\ currentStep' = found.currentStep
           /\ nextStepTime' = found.nextStepTime
           /\ totalWaterPoured' = poured
           /\ effectDue' = (found.currentStep # currentStep)
           /\ debounceTimers' = IF rendered THEN Orphaned(debounceTimers) ELSE debounceTimers
           /\ timeoutId' = IF rendered THEN NoTimeout ELSE timeoutId
    /\ UNCHANGED <<recipeVars, currentTimeInSeconds, timerSeconds, isRunning, prevTimeRef,
                   untilTick, isTimerActive, waterWeightInput, sinceEdit, recomputed,
                   waterEdits>>

\* startTimer; the interval effect starts the interval.
startTimer ==
    /\ recipe # NoRecipe
    /\ ~effectDue
    /\ ~isRunning
    /\ isRunning' = TRUE
    /\ untilTick' = TickInterval
    /\ UNCHANGED <<recipeVars, brewVars, timerSeconds, prevTimeRef, timeoutId,
                   isTimerActive, totalWaterPoured, waterWeightInput, debounceTimers,
                   effectDue, sinceEdit, recomputed, waterEdits>>

\* pauseTimer; the interval effect clears the interval.
pauseTimer ==
    /\ ~effectDue
    /\ isRunning
    /\ isRunning' = FALSE
    /\ untilTick' = TickInterval
    /\ UNCHANGED <<recipeVars, brewVars, timerSeconds, prevTimeRef, timeoutId,
                   isTimerActive, totalWaterPoured, waterWeightInput, debounceTimers,
                   effectDue, sinceEdit, recomputed, waterEdits>>

\* resetTimer (the button is disabled at time 0 when not running); the notify
\* effect runs if the time has changed.
resetTimer ==
    /\ recipe # NoRecipe
    /\ ~effectDue
    /\ ~(timerSeconds = 0 /\ ~isRunning)
    /\ isRunning' = FALSE
    /\ untilTick' = TickInterval
    /\ timerSeconds' = 0
    /\ prevTimeRef' = 0
    /\ timeoutId' = IF prevTimeRef # 0 THEN [pending |-> TRUE, time |-> 0] ELSE timeoutId
    /\ UNCHANGED <<recipeVars, brewVars, isTimerActive, totalWaterPoured,
                   waterWeightInput, debounceTimers, effectDue, sinceEdit, recomputed,
                   waterEdits>>

\* The interval fires: one second more; the notify effect clears the timeout
\* pending, if any, and sets one for the new time.
IntervalTick ==
    /\ ~effectDue
    /\ isRunning
    /\ untilTick = 0
    /\ timerSeconds < MaxBrewSeconds
    /\ timerSeconds' = timerSeconds + 1
    /\ untilTick' = TickInterval
    /\ prevTimeRef' = timerSeconds + 1
    /\ timeoutId' = [pending |-> TRUE, time |-> timerSeconds + 1]
    /\ UNCHANGED <<recipeVars, brewVars, isRunning, isTimerActive, totalWaterPoured,
                   waterWeightInput, debounceTimers, effectDue, sinceEdit, recomputed,
                   waterEdits>>

\* The timeout fires: onTimeUpdate, which is handleTimeUpdate.
NotifyParent ==
    /\ ~effectDue
    /\ timeoutId.pending
    /\ currentTimeInSeconds' = timeoutId.time
    /\ isTimerActive' = (timeoutId.time > 0)
    /\ timeoutId' = NoTimeout
    /\ effectDue' = (timeoutId.time # currentTimeInSeconds)
    /\ debounceTimers' = IF \/ timeoutId.time # currentTimeInSeconds
                            \/ isTimerActive # (timeoutId.time > 0)
                         THEN Orphaned(debounceTimers)
                         ELSE debounceTimers
    /\ UNCHANGED <<recipeVars, currentStep, nextStepTime, timerSeconds, isRunning,
                   prevTimeRef, untilTick, totalWaterPoured, waterWeightInput, sinceEdit,
                   recomputed, waterEdits>>

\* handleCustomWaterChange, enabled while the input is.  It calls the debounced
\* function of its render, which restarts its own timer only.  An edit made in
\* a quarter second is taken after the debounce timers due in it.
HandleCustomWaterChange ==
    /\ recipe # NoRecipe
    /\ ~effectDue
    /\ ~isTimerActive
    /\ waterEdits < MaxWaterEdits
    /\ \A i \in 1..Len(debounceTimers) : debounceTimers[i].wait > 0
    /\ \E value \in TypedWaterValues :
          LET stored   == IF value = NaN THEN FInt(0) ELSE FInt(value)
              rendered == stored # waterWeightInput
              called   == value # NaN /\ value >= 100
              others   == SelectSeq(debounceTimers, LAMBDA t : ~t.current)
              timers   == IF called
                          THEN Append(others, [weight |-> value, wait |-> DebounceWait,
                                               current |-> TRUE])
                          ELSE debounceTimers
          IN  /\ waterWeightInput' = stored
              /\ debounceTimers' = IF rendered THEN Orphaned(timers) ELSE timers
              /\ timeoutId' = IF rendered THEN NoTimeout ELSE timeoutId
    /\ sinceEdit' = 0
    /\ recomputed' = IF sinceEdit >= DebounceWait THEN <<>> ELSE recomputed
    /\ waterEdits' = waterEdits + 1
    /\ UNCHANGED <<recipeVars, brewVars, timerSeconds, isRunning, prevTimeRef, untilTick,
                   isTimerActive, totalWaterPoured, effectDue>>

\* A debounce timer fires: the recipe is rescaled from originalRecipe and
\* replaces selectedRecipe.
DebouncedApplyCustomWater ==
    /\ ~effectDue
    /\ debounceTimers # <<>>
    /\ Head(debounceTimers).wait = 0
    /\ custom' = calculateRecipeWithCustomWater(recipe, FInt(Head(debounceTimers).weight),
                                                uuidCount)
    /\ uuidCount' = uuidCount + 1 + Len(recipe.steps)
    /\ rescales' = rescales + 1
    /\ recomputed' = Append(recomputed, [weight |-> Head(debounceTimers).weight,
                                         sinceEdit |-> sinceEdit,
                                         entered |-> waterWeightInput])
    /\ debounceTimers' = Orphaned(Tail(debounceTimers))
    /\ timeoutId' = NoTimeout
    /\ effectDue' = TRUE
    /\ UNCHANGED <<recipe, requestedBrewTime, brewVars, timerSeconds, isRunning,
                   prevTimeRef, untilTick, isTimerActive, totalWaterPoured,
                   waterWeightInput, sinceEdit, waterEdits>>

\* A quarter second passes, once every callback due has run.
Elapse ==
    /\ recipe # NoRecipe
    /\ ~effectDue
    /\ ~timeoutId.pending
    /\ \A i \in 1..Len(debounceTimers) : debounceTimers[i].wait > 0
    /\ isRunning => untilTick > 0
    /\ debounceTimers' = [i \in 1..Len(debounceTimers) |->
                            [debounceTimers[i] EXCEPT !.wait = @ - 1]]
    /\ untilTick' = IF isRunning THEN untilTick - 1 ELSE untilTick
    /\ sinceEdit' = IF sinceEdit < DebounceWait THEN sinceEdit + 1 ELSE sinceEdit
    /\ UNCHANGED <<recipeVars, brewVars, timerSeconds, isRunning, prevTimeRef, timeoutId,
                   isTimerActive, totalWaterPoured, waterWeightInput, effectDue,
                   recomputed, waterEdits>>

(***************************************************************************)
(* Specifications                                                          *)
(***************************************************************************)

NextTime ==
    \/ FormatTime /\ UNCHANGED <<catVars, mapVars, recipeVars, brewVars, queryVars, calcVars, screenVars>>
    \/ ParseTimeToSeconds /\ UNCHANGED <<catVars, mapVars, recipeVars, brewVars, queryVars, calcVars, screenVars>>

InitTime ==
    /\ seconds \in 0..MaxSeconds
    /\ timeStr = <<>>
    /\ parsedSeconds = NaN
    /\ timePc = "start"
    /\ microns = 0
    /\ category = "idle"
    /\ mapArgs = NoMapArgs
    /\ mapLast = NoCall
    /\ mapPrev = NoCall
    /\ recipe = NoRecipe
    /\ custom = NoRecipe
    /\ uuidCount = UuidsAtLoad
    /\ rescales = 0
    /\ requestedBrewTime = Undefined
    /\ currentTimeInSeconds = 0
    /\ currentStep = NoStep
    /\ nextStepTime = <<>>
    /\ catalog = NoCatalog
    /\ queryResult = NoQuery
    /\ micronsTarget = 0
    /\ settings = NoSettings
    /\ selectedModel = DEFAULT_MODEL
    /\ showAdvanced = FALSE
    /\ customSettings = ModelSettings(DEFAULT_MODEL)
    /\ calculatorCalibration = NoCalibration
    /\ calibrationData = NoCalibration
    /\ localStorage = NoStorage
    /\ lastEvent = NoEvent
    /\ calibrationEdits = 0
    /\ timerSeconds = 0
    /\ isRunning = FALSE
    /\ prevTimeRef = 0
    /\ timeoutId = NoTimeout
    /\ untilTick = TickInterval
    /\ isTimerActive = FALSE
    /\ totalWaterPoured = 0
    /\ waterWeightInput = FInt(0)
    /\ debounceTimers = <<>>
    /\ effectDue = FALSE
    /\ sinceEdit = DebounceWait
    /\ recomputed = <<>>
    /\ waterEdits = 0

SpecTime ==
    InitTime /\ [][NextTime]_vars

NextCategory ==
    GetGrindCategory /\ UNCHANGED <<timeVars, mapVars, recipeVars, brewVars, queryVars, calcVars, screenVars>>

InitCategory ==
    /\ microns \in (0 - MicronMargin)..(1400 + MicronMargin)
    /\ category = "none"
    /\ seconds = 0
    /\ timeStr = <<>>
    /\ parsedSeconds = NaN
    /\ timePc = "idle"
    /\ mapArgs = NoMapArgs
    /\ mapLast = NoCall
    /\ mapPrev = NoCall
    /\ recipe = NoRecipe
    /\ custom = NoRecipe
    /\ uuidCount = UuidsAtLoad
    /\ rescales = 0
    /\ requestedBrewTime = Undefined
    /\ currentTimeInSeconds = 0
    /\ currentStep = NoStep
    /\ nextStepTime = <<>>
    /\ catalog = NoCatalog
    /\ queryResult = NoQuery
    /\ micronsTarget = 0
    /\ settings = NoSettings
    /\ selectedModel = DEFAULT_MODEL
    /\ showAdvanced = FALSE
    /\ customSettings = ModelSettings(DEFAULT_MODEL)
    /\ calculatorCalibration = NoCalibration
    /\ calibrationData = NoCalibration
    /\ localStorage = NoStorage
    /\ lastEvent = NoEvent
    /\ calibrationEdits = 0
    /\ timerSeconds = 0
    /\ isRunning = FALSE
    /\ prevTimeRef = 0
    /\ timeoutId = NoTimeout
    /\ untilTick = TickInterval
    /\ isTimerActive = FALSE
    /\ totalWaterPoured = 0
    /\ waterWeightInput = FInt(0)
    /\ debounceTimers = <<>>
    /\ effectDue = FALSE
    /\ sinceEdit = DebounceWait
    /\ recomputed = <<>>
    /\ waterEdits = 0

SpecCategory ==
    InitCategory /\ [][NextCategory]_vars

NextMap ==
    MapCall /\ UNCHANGED <<timeVars, catVars, recipeVars, brewVars, queryVars, calcVars, screenVars>>

InitMap ==
    /\ \E fmt \in {"simple", "complex"}, cpn \in 1..MaxClicksPerNumber :
          \E lo, hi \in (IF fmt = "simple" THEN SimpleSettings
                         ELSE ComplexSettings(cpn, {0, 9})) :
             \E maxM \in 0..MaxMicrons :
                mapArgs = [minSetting |-> lo, maxSetting |-> hi,
                           minMicrons |-> LowMicrons, maxMicrons |-> maxM,
                           settingFormat |-> fmt, clicksPerNumber |-> cpn]
    /\ mapLast = NoCall
    /\ mapPrev = NoCall
    /\ seconds = 0
    /\ timeStr = <<>>
    /\ parsedSeconds = NaN
    /\ timePc = "idle"
    /\ microns = 0
    /\ category = "idle"
    /\ recipe = NoRecipe
    /\ custom = NoRecipe
    /\ uuidCount = UuidsAtLoad
    /\ rescales = 0
    /\ requestedBrewTime = Undefined
    /\ currentTimeInSeconds = 0
    /\ currentStep = NoStep
    /\ nextStepTime = <<>>
    /\ catalog = NoCatalog
    /\ queryResult = NoQuery
    /\ micronsTarget = 0
    /\ settings = NoSettings
    /\ selectedModel = DEFAULT_MODEL
    /\ showAdvanced = FALSE
    /\ customSettings = ModelSettings(DEFAULT_MODEL)
    /\ calculatorCalibration = NoCalibration
    /\ calibrationData = NoCalibration
    /\ localStorage = NoStorage
    /\ lastEvent = NoEvent
    /\ calibrationEdits = 0
    /\ timerSeconds = 0
    /\ isRunning = FALSE
    /\ prevTimeRef = 0
    /\ timeoutId = NoTimeout
    /\ untilTick = TickInterval
    /\ isTimerActive = FALSE
    /\ totalWaterPoured = 0
    /\ waterWeightInput = FInt(0)
    /\ debounceTimers = <<>>
    /\ effectDue = FALSE
    /\ sinceEdit = DebounceWait
    /\ recomputed = <<>>
    /\ waterEdits = 0

SpecMap ==
    InitMap /\ [][NextMap]_vars

\* Both bounds are the same well-formed complex setting, over every number 0..9.
InitMapSame ==
    /\ \E cpn \in 1..(MaxClicksPerNumber + 1) :
          \E st \in ComplexSettings(cpn, 0..9) :
             \E maxM \in (LowMicrons + 2)..MaxMicrons :
                mapArgs = [minSetting |-> st, maxSetting |-> st,
                           minMicrons |-> LowMicrons, maxMicrons |-> maxM,
                           settingFormat |-> "complex", clicksPerNumber |-> cpn]
    /\ mapLast = NoCall
    /\ mapPrev = NoCall
    /\ seconds = 0
    /\ timeStr = <<>>
    /\ parsedSeconds = NaN
    /\ timePc = "idle"
    /\ microns = 0
    /\ category = "idle"
    /\ recipe = NoRecipe
    /\ custom = NoRecipe
    /\ uuidCount = UuidsAtLoad
    /\ rescales = 0
    /\ requestedBrewTime = Undefined
    /\ currentTimeInSeconds = 0
    /\ currentStep = NoStep
    /\ nextStepTime = <<>>
    /\ catalog = NoCatalog
    /\ queryResult = NoQuery
    /\ micronsTarget = 0
    /\ settings = NoSettings
    /\ selectedModel = DEFAULT_MODEL
    /\ showAdvanced = FALSE
    /\ customSettings = ModelSettings(DEFAULT_MODEL)
    /\ calculatorCalibration = NoCalibration
    /\ calibrationData = NoCalibration
    /\ localStorage = NoStorage
    /\ lastEvent = NoEvent
    /\ calibrationEdits = 0
    /\ timerSeconds = 0
    /\ isRunning = FALSE
    /\ prevTimeRef = 0
    /\ timeoutId = NoTimeout
    /\ untilTick = TickInterval
    /\ isTimerActive = FALSE
    /\ totalWaterPoured = 0
    /\ waterWeightInput = FInt(0)
    /\ debounceTimers = <<>>
    /\ effectDue = FALSE
    /\ sinceEdit = DebounceWait
    /\ recomputed = <<>>
    /\ waterEdits = 0

SpecMapSame ==
    InitMapSame /\ [][NextMap]_vars

NextRecipe ==
    \/ CreateCustomRecipe /\ UNCHANGED <<timeVars, catVars, mapVars, brewVars, queryVars, calcVars, screenVars>>
    \/ OnSubmit /\ UNCHANGED <<timeVars, catVars, mapVars, brewVars, queryVars, calcVars, screenVars>>
    \/ SelectRecipe /\ UNCHANGED <<timeVars, catVars, mapVars, brewVars, queryVars, calcVars, screenVars>>
    \/ ApplyCustomWater /\ UNCHANGED <<timeVars, catVars, mapVars, brewVars, queryVars, calcVars, screenVars>>

InitRecipe ==
    /\ recipe = NoRecipe
    /\ custom = NoRecipe
    /\ uuidCount = UuidsAtLoad
    /\ rescales = 0
    /\ seconds = 0
    /\ timeStr = <<>>
    /\ parsedSeconds = NaN
    /\ timePc = "idle"
    /\ microns = 0
    /\ category = "idle"
    /\ mapArgs = NoMapArgs
    /\ mapLast = NoCall
    /\ mapPrev = NoCall
    /\ requestedBrewTime = Undefined
    /\ currentTimeInSeconds = 0
    /\ currentStep = NoStep
    /\ nextStepTime = <<>>
    /\ catalog = NoCatalog
    /\ queryResult = NoQuery
    /\ micronsTarget = 0
    /\ settings = NoSettings
    /\ selectedModel = DEFAULT_MODEL
    /\ showAdvanced = FALSE
    /\ customSettings = ModelSettings(DEFAULT_MODEL)
    /\ calculatorCalibration = NoCalibration
    /\ calibrationData = NoCalibration
    /\ localStorage = NoStorage
    /\ lastEvent = NoEvent
    /\ calibrationEdits = 0
    /\ timerSeconds = 0
    /\ isRunning = FALSE
    /\ prevTimeRef = 0
    /\ timeoutId = NoTimeout
    /\ untilTick = TickInterval
    /\ isTimerActive = FALSE
    /\ totalWaterPoured = 0
    /\ waterWeightInput = FInt(0)
    /\ debounceTimers = <<>>
    /\ effectDue = FALSE
    /\ sinceEdit = DebounceWait
    /\ recomputed = <<>>
    /\ waterEdits = 0

SpecRecipe ==
    InitRecipe /\ [][NextRecipe]_vars

\* Complex format with at least one malformed bound.
InitMapMalformed ==
    /\ \E cpn \in 1..MaxClicksPerNumber :
          \E lo, hi \in ComplexSettings(cpn, {0, 9}) \cup MalformedSettings :
             \E maxM \in 0..MaxMicrons :
                /\ lo \in MalformedSettings \/ hi \in MalformedSettings
                /\ mapArgs = [minSetting |-> lo, maxSetting |-> hi,
                              minMicrons |-> LowMicrons, maxMicrons |-> maxM,
                              settingFormat |-> "complex", clicksPerNumber |-> cpn]
    /\ mapLast = NoCall
    /\ mapPrev = NoCall
    /\ seconds = 0
    /\ timeStr = <<>>
    /\ parsedSeconds = NaN
    /\ timePc = "idle"
    /\ microns = 0
    /\ category = "idle"
    /\ recipe = NoRecipe
    /\ custom = NoRecipe
    /\ uuidCount = UuidsAtLoad
    /\ rescales = 0
    /\ requestedBrewTime = Undefined
    /\ currentTimeInSeconds = 0
    /\ currentStep = NoStep
    /\ nextStepTime = <<>>
    /\ catalog = NoCatalog
    /\ queryResult = NoQuery
    /\ micronsTarget = 0
    /\ settings = NoSettings
    /\ selectedModel = DEFAULT_MODEL
    /\ showAdvanced = FALSE
    /\ customSettings = ModelSettings(DEFAULT_MODEL)
    /\ calculatorCalibration = NoCalibration
    /\ calibrationData = NoCalibration
    /\ localStorage = NoStorage
    /\ lastEvent = NoEvent
    /\ calibrationEdits = 0
    /\ timerSeconds = 0
    /\ isRunning = FALSE
    /\ prevTimeRef = 0
    /\ timeoutId = NoTimeout
    /\ untilTick = TickInterval
    /\ isTimerActive = FALSE
    /\ totalWaterPoured = 0
    /\ waterWeightInput = FInt(0)
    /\ debounceTimers = <<>>
    /\ effectDue = FALSE
    /\ sinceEdit = DebounceWait
    /\ recomputed = <<>>
    /\ waterEdits = 0

SpecMapMalformed ==
    InitMapMalformed /\ [][NextMap]_vars

NextBrew ==
    \/ LoadRecipe /\ UNCHANGED <<timeVars, catVars, mapVars, queryVars, calcVars, screenVars>>
    \/ TimerTick /\ UNCHANGED <<timeVars, catVars, mapVars, queryVars, calcVars, screenVars>>
    \/ ResetTimer /\ UNCHANGED <<timeVars, catVars, mapVars, queryVars, calcVars, screenVars>>

InitBrew ==
    /\ recipe = NoRecipe
    /\ custom = NoRecipe
    /\ uuidCount = UuidsAtLoad
    /\ rescales = 0
    /\ requestedBrewTime = Undefined
    /\ currentTimeInSeconds = 0
    /\ currentStep = NoStep
    /\ nextStepTime = <<>>
    /\ seconds = 0
    /\ timeStr = <<>>
    /\ parsedSeconds = NaN
    /\ timePc = "idle"
    /\ microns = 0
    /\ category = "idle"
    /\ mapArgs = NoMapArgs
    /\ mapLast = NoCall
    /\ mapPrev = NoCall
    /\ catalog = NoCatalog
    /\ queryResult = NoQuery
    /\ micronsTarget = 0
    /\ settings = NoSettings
    /\ selectedModel = DEFAULT_MODEL
    /\ showAdvanced = FALSE
    /\ customSettings = ModelSettings(DEFAULT_MODEL)
    /\ calculatorCalibration = NoCalibration
    /\ calibrationData = NoCalibration
    /\ localStorage = NoStorage
    /\ lastEvent = NoEvent
    /\ calibrationEdits = 0
    /\ timerSeconds = 0
    /\ isRunning = FALSE
    /\ prevTimeRef = 0
    /\ timeoutId = NoTimeout
    /\ untilTick = TickInterval
    /\ isTimerActive = FALSE
    /\ totalWaterPoured = 0
    /\ waterWeightInput = FInt(0)
    /\ debounceTimers = <<>>
    /\ effectDue = FALSE
    /\ sinceEdit = DebounceWait
    /\ recomputed = <<>>
    /\ waterEdits = 0

SpecBrew ==
    InitBrew /\ [][NextBrew]_vars

NextQuery ==
    QueryMicrons /\ UNCHANGED <<timeVars, catVars, mapVars, recipeVars, brewVars, calcVars, screenVars>>

InitQuery ==
    /\ \E methods \in DistinctMethodLists, simpleFirst \in BOOLEAN :
          catalog = [grinders |-> IF simpleFirst
                                  THEN <<SimpleGrinder(methods), ComplexGrinder>>
                                  ELSE <<ComplexGrinder, SimpleGrinder(methods)>>]
    /\ queryResult = NoQuery
    /\ recipe = NoRecipe
    /\ custom = NoRecipe
    /\ uuidCount = UuidsAtLoad
    /\ rescales = 0
    /\ requestedBrewTime = Undefined
    /\ currentTimeInSeconds = 0
    /\ currentStep = NoStep
    /\ nextStepTime = <<>>
    /\ seconds = 0
    /\ timeStr = <<>>
    /\ parsedSeconds = NaN
    /\ timePc = "idle"
    /\ microns = 0
    /\ category = "idle"
    /\ mapArgs = NoMapArgs
    /\ mapLast = NoCall
    /\ mapPrev = NoCall
    /\ micronsTarget = 0
    /\ settings = NoSettings
    /\ selectedModel = DEFAULT_MODEL
    /\ showAdvanced = FALSE
    /\ customSettings = ModelSettings(DEFAULT_MODEL)
    /\ calculatorCalibration = NoCalibration
    /\ calibrationData = NoCalibration
    /\ localStorage = NoStorage
    /\ lastEvent = NoEvent
    /\ calibrationEdits = 0
    /\ timerSeconds = 0
    /\ isRunning = FALSE
    /\ prevTimeRef = 0
    /\ timeoutId = NoTimeout
    /\ untilTick = TickInterval
    /\ isTimerActive = FALSE
    /\ totalWaterPoured = 0
    /\ waterWeightInput = FInt(0)
    /\ debounceTimers = <<>>
    /\ effectDue = FALSE
    /\ sinceEdit = DebounceWait
    /\ recomputed = <<>>
    /\ waterEdits = 0

SpecQuery ==
    InitQuery /\ [][NextQuery]_vars

NextRescale ==
    \/ OnSubmit /\ UNCHANGED <<timeVars, catVars, mapVars, brewVars, queryVars, calcVars, screenVars>>
    \/ SelectRecipe /\ UNCHANGED <<timeVars, catVars, mapVars, brewVars, queryVars, calcVars, screenVars>>
    \/ V60ApplyCustomWater /\ UNCHANGED <<timeVars, catVars, mapVars, brewVars, queryVars, calcVars, screenVars>>

InitRescale ==
    /\ recipe = NoRecipe
    /\ custom = NoRecipe
    /\ uuidCount = UuidsAtLoad
    /\ rescales = 0
    /\ requestedBrewTime = Undefined
    /\ seconds = 0
    /\ timeStr = <<>>
    /\ parsedSeconds = NaN
    /\ timePc = "idle"
    /\ microns = 0
    /\ category = "idle"
    /\ mapArgs = NoMapArgs
    /\ mapLast = NoCall
    /\ mapPrev = NoCall
    /\ currentTimeInSeconds = 0
    /\ currentStep = NoStep
    /\ nextStepTime = <<>>
    /\ catalog = NoCatalog
    /\ queryResult = NoQuery
    /\ micronsTarget = 0
    /\ settings = NoSettings
    /\ selectedModel = DEFAULT_MODEL
    /\ showAdvanced = FALSE
    /\ customSettings = ModelSettings(DEFAULT_MODEL)
    /\ calculatorCalibration = NoCalibration
    /\ calibrationData = NoCalibration
    /\ localStorage = NoStorage
    /\ lastEvent = NoEvent
    /\ calibrationEdits = 0
    /\ timerSeconds = 0
    /\ isRunning = FALSE
    /\ prevTimeRef = 0
    /\ timeoutId = NoTimeout
    /\ untilTick = TickInterval
    /\ isTimerActive = FALSE
    /\ totalWaterPoured = 0
    /\ waterWeightInput = FInt(0)
    /\ debounceTimers = <<>>
    /\ effectDue = FALSE
    /\ sinceEdit = DebounceWait
    /\ recomputed = <<>>
    /\ waterEdits = 0

SpecRescale ==
    InitRescale /\ [][NextRescale]_vars

NextCalibration ==
    \/ AddCalibrationPoint /\ UNCHANGED <<timeVars, catVars, mapVars, recipeVars, brewVars, queryVars, screenVars>>
    \/ RemoveCalibrationPoint /\ UNCHANGED <<timeVars, catVars, mapVars, recipeVars, brewVars, queryVars, screenVars>>
    \/ HandleModelChange /\ UNCHANGED <<timeVars, catVars, mapVars, recipeVars, brewVars, queryVars, screenVars>>

NextCalculator ==
    \/ TargetMicronsChange /\ UNCHANGED <<timeVars, catVars, mapVars, recipeVars, brewVars, queryVars, screenVars>>
    \/ HandleBrewMethodSelect /\ UNCHANGED <<timeVars, catVars, mapVars, recipeVars, brewVars, queryVars, screenVars>>
    \/ Calculate /\ UNCHANGED <<timeVars, catVars, mapVars, recipeVars, brewVars, queryVars, screenVars>>
    \/ AddCalibrationPoint /\ UNCHANGED <<timeVars, catVars, mapVars, recipeVars, brewVars, queryVars, screenVars>>
    \/ RemoveCalibrationPoint /\ UNCHANGED <<timeVars, catVars, mapVars, recipeVars, brewVars, queryVars, screenVars>>

NextSettings ==
    \/ HandleModelChange /\ UNCHANGED <<timeVars, catVars, mapVars, recipeVars, brewVars, queryVars, screenVars>>
    \/ ToggleAdvanced /\ UNCHANGED <<timeVars, catVars, mapVars, recipeVars, brewVars, queryVars, screenVars>>
    \/ CustomSettingsChange /\ UNCHANGED <<timeVars, catVars, mapVars, recipeVars, brewVars, queryVars, screenVars>>
    \/ Calculate /\ UNCHANGED <<timeVars, catVars, mapVars, recipeVars, brewVars, queryVars, screenVars>>

InitCalculator ==
    /\ micronsTarget = 500
    /\ settings = calculateSettings(ModelSettings(DEFAULT_MODEL), NoCalibration, 500)
    /\ selectedModel = DEFAULT_MODEL
    /\ showAdvanced = FALSE
    /\ customSettings = ModelSettings(DEFAULT_MODEL)
    /\ calculatorCalibration = [modelId |-> DEFAULT_MODEL.id, points |-> <<>>]
    /\ calibrationData = [modelId |-> DEFAULT_MODEL.id, points |-> <<>>]
    /\ localStorage = NoStorage
    /\ lastEvent = [NoEvent EXCEPT !.kind = "mount"]
    /\ calibrationEdits = 0
    /\ recipe = NoRecipe
    /\ custom = NoRecipe
    /\ uuidCount = UuidsAtLoad
    /\ rescales = 0
    /\ requestedBrewTime = Undefined
    /\ seconds = 0
    /\ timeStr = <<>>
    /\ parsedSeconds = NaN
    /\ timePc = "idle"
    /\ microns = 0
    /\ category = "idle"
    /\ mapArgs = NoMapArgs
    /\ mapLast = NoCall
    /\ mapPrev = NoCall
    /\ currentTimeInSeconds = 0
    /\ currentStep = NoStep
    /\ nextStepTime = <<>>
    /\ catalog = NoCatalog
    /\ queryResult = NoQuery
    /\ timerSeconds = 0
    /\ isRunning = FALSE
    /\ prevTimeRef = 0
    /\ timeoutId = NoTimeout
    /\ untilTick = TickInterval
    /\ isTimerActive = FALSE
    /\ totalWaterPoured = 0
    /\ waterWeightInput = FInt(0)
    /\ debounceTimers = <<>>
    /\ effectDue = FALSE
    /\ sinceEdit = DebounceWait
    /\ recomputed = <<>>
    /\ waterEdits = 0

SpecCalculator ==
    InitCalculator /\ [][NextCalculator]_vars

SpecCalibration ==
    InitCalculator /\ [][NextCalibration]_vars

SpecSettings ==
    InitCalculator /\ [][NextSettings]_vars

NextScreen ==
    \/ Mount /\ UNCHANGED <<timeVars, catVars, mapVars, queryVars, calcVars>>
    \/ StepAndWaterEffect /\ UNCHANGED <<timeVars, catVars, mapVars, queryVars, calcVars>>
    \/ startTimer /\ UNCHANGED <<timeVars, catVars, mapVars, queryVars, calcVars>>
    \/ pauseTimer /\ UNCHANGED <<timeVars, catVars, mapVars, queryVars, calcVars>>
    \/ resetTimer /\ UNCHANGED <<timeVars, catVars, mapVars, queryVars, calcVars>>
    \/ IntervalTick /\ UNCHANGED <<timeVars, catVars, mapVars, queryVars, calcVars>>
    \/ NotifyParent /\ UNCHANGED <<timeVars, catVars, mapVars, queryVars, calcVars>>
    \/ HandleCustomWaterChange /\ UNCHANGED <<timeVars, catVars, mapVars, queryVars, calcVars>>
    \/ DebouncedApplyCustomWater /\ UNCHANGED <<timeVars, catVars, mapVars, queryVars, calcVars>>
    \/ Elapse /\ UNCHANGED <<timeVars, catVars, mapVars, queryVars, calcVars>>

InitScreen ==
    /\ recipe = NoRecipe
    /\ custom = NoRecipe
    /\ uuidCount = UuidsAtLoad
    /\ rescales = 0
    /\ requestedBrewTime = Undefined
    /\ currentTimeInSeconds = 0
    /\ currentStep = NoStep
    /\ nextStepTime = <<>>
    /\ seconds = 0
    /\ timeStr = <<>>
    /\ parsedSeconds = NaN
    /\ timePc = "idle"
    /\ microns = 0
    /\ category = "idle"
    /\ mapArgs = NoMapArgs
    /\ mapLast = NoCall
    /\ mapPrev = NoCall
    /\ catalog = NoCatalog
    /\ queryResult = NoQuery
    /\ micronsTarget = 0
    /\ settings = NoSettings
    /\ selectedModel = DEFAULT_MODEL
    /\ showAdvanced = FALSE
    /\ customSettings = ModelSettings(DEFAULT_MODEL)
    /\ calculatorCalibration = NoCalibration
    /\ calibrationData = NoCalibration
    /\ localStorage = NoStorage
    /\ lastEvent = NoEvent
    /\ calibrationEdits = 0
    /\ timerSeconds = 0
    /\ isRunning = FALSE
    /\ prevTimeRef = 0
    /\ timeoutId = NoTimeout
    /\ untilTick = TickInterval
    /\ isTimerActive = FALSE
    /\ totalWaterPoured = 0
    /\ waterWeightInput = FInt(0)
    /\ debounceTimers = <<>>
    /\ effectDue = FALSE
    /\ sinceEdit = DebounceWait
    /\ recomputed = <<>>
    /\ waterEdits = 0

SpecScreen ==
    InitScreen /\ [][NextScreen]_vars

(***************************************************************************)
(* Claims                                                                  *)
(***************************************************************************)

\* C8: for every non-negative integer s, parseTimeToSeconds(formatTime(s)) = s,
\* and formatTime renders floor(s/60), a colon, and s mod 60 on two digits.
TimeRoundTrip ==
    /\ timePc = "parsed" => parsedSeconds = seconds
    /\ timePc \in {"formatted", "parsed"} =>
          /\ Len(timeStr) >= 4
          /\ timeStr[Len(timeStr) - 2] = ":"
          /\ DigitsValue(SubSeq(timeStr, 1, Len(timeStr) - 3)) = seconds \div 60
          /\ DigitsValue(SubSeq(timeStr, Len(timeStr) - 1, Len(timeStr))) = seconds % 60

\* C8 witness: 3661 was formatted as "61:01" and parsed back.
TimeRoundTripWitness ==
    /\ timePc = "parsed"
    /\ seconds = 3661
    /\ timeStr = <<"6", "1", ":", "0", "1">>
    /\ parsedSeconds = 3661

\* C9: getGrindCategory is total; inside [0, 1400) it returns the category of
\* the 200-micron band holding m, below 0 Extra Fine, from 1400 on Extra Coarse.
CategoryPartition ==
    category # "none" =>
        /\ category \in {"Extra Fine", "Fine", "Medium Fine", "Medium",
                         "Medium Coarse", "Coarse", "Extra Coarse"}
        /\ microns < 0 => category = "Extra Fine"
        /\ microns >= 1400 => category = "Extra Coarse"
        /\ (microns >= 0 /\ microns < 1400) =>
              category = <<"Extra Fine", "Fine", "Medium Fine", "Medium",
                           "Medium Coarse", "Coarse", "Extra Coarse">>[(microns \div 200) + 1]
        /\ microns = 199 => category = "Extra Fine"
        /\ microns = 200 => category = "Fine"

\* C9 witness: the boundary value 200 was classified as Fine.
CategoryPartitionWitness ==
    /\ microns = 200
    /\ category = "Fine"

\* The click-equivalent value settings are compared by.
SettingValue(setting, settingFormat, clicksPerNumber) ==
    IF settingFormat = "simple" THEN SimpleSettingNum(setting)
    ELSE parseComplexSetting(setting, clicksPerNumber)[4]

ValidRange ==
    mapArgs.minMicrons < mapArgs.maxMicrons

Interior(call) ==
    /\ call.called
    /\ mapArgs.minMicrons < call.microns
    /\ call.microns < mapArgs.maxMicrons

CallValue(call) ==
    SettingValue(call.result, mapArgs.settingFormat, mapArgs.clicksPerNumber)

\* C1: with minMicrons < maxMicrons, a call at microns = minMicrons returns
\* minSetting itself and a call at microns = maxMicrons returns maxSetting itself,
\* in both formats.
BoundaryEcho ==
    (ValidRange /\ mapLast.called) =>
        /\ mapLast.microns = mapArgs.minMicrons => mapLast.result = mapArgs.minSetting
        /\ mapLast.microns = mapArgs.maxMicrons => mapLast.result = mapArgs.maxSetting

\* C1 witness: a call at maxMicrons of a valid range echoed a string setting
\* that differs from minSetting.
BoundaryEchoWitness ==
    /\ ValidRange
    /\ mapLast.called
    /\ mapLast.microns = mapArgs.maxMicrons
    /\ mapArgs.maxSetting.kind = "str"
    /\ mapArgs.maxSetting # mapArgs.minSetting
    /\ mapLast.result = mapArgs.maxSetting

\* C2 as stated: for every bounds with minMicrons < maxMicrons and every
\* microns1 < microns2, the setting for microns1 is at most the setting for
\* microns2, by click-equivalent value.
MonotoneAnyBounds ==
    (ValidRange /\ mapPrev.called /\ mapLast.called /\ mapPrev.microns < mapLast.microns)
        => CallValue(mapPrev) <= CallValue(mapLast)

\* C2 amended: the same, for bounds whose minSetting is at most maxSetting by
\* click-equivalent value.
MonotoneOrderedBounds ==
    ( /\ ValidRange
      /\ SettingValue(mapArgs.minSetting, mapArgs.settingFormat, mapArgs.clicksPerNumber)
           <= SettingValue(mapArgs.maxSetting, mapArgs.settingFormat, mapArgs.clicksPerNumber)
      /\ mapPrev.called /\ mapLast.called /\ mapPrev.microns < mapLast.microns )
        => CallValue(mapPrev) <= CallValue(mapLast)

\* C2 witness: two calls inside the interpolated region of a three-component
\* complex range returned settings of strictly increasing value.
MonotoneWitness ==
    /\ mapArgs.settingFormat = "complex"
    /\ Len(Split(SettingString(mapArgs.minSetting), ".")) = 3
    /\ Interior(mapPrev)
    /\ Interior(mapLast)
    /\ mapPrev.microns < mapLast.microns
    /\ CallValue(mapPrev) < CallValue(mapLast)

\* C10: a well-formed complex setting converted to its click-equivalent and
\* re-expanded with the same clicksPerNumber and component count is the
\* original string, also when mapMicronsToSetting does both between equal bounds.
ComplexRoundTrip ==
    /\ mapArgs.settingFormat = "complex" =>
          ExpandComplex(parseComplexSetting(mapArgs.minSetting, mapArgs.clicksPerNumber)[4],
                        Len(Split(SettingString(mapArgs.minSetting), ".")),
                        mapArgs.clicksPerNumber) = mapArgs.minSetting
    /\ Interior(mapLast) => mapLast.result = mapArgs.minSetting

\* C10 witness: "1.9.1" with 2 clicks per number came back from the
\* interpolated region.
ComplexRoundTripWitness ==
    /\ mapArgs.clicksPerNumber = 2
    /\ mapArgs.minSetting = Str(<<"1", ".", "9", ".", "1">>)
    /\ Interior(mapLast)
    /\ mapLast.result = mapArgs.minSetting

\* A recipe made by createCustomRecipe: its mode is always set.
Custom(r) ==
    r.mode \in {"basic", "advanced"}

\* Its steps are the caller's: the form's steps carry the ids step-0, step-1, ...
CallerSteps(r) ==
    r.mode = "advanced" /\ r.steps[1].id < 0

\* Its steps were generated (basic mode or the legacy fallback).
Generated(r) ==
    Custom(r) /\ ~CallerSteps(r)

\* The sum of targetWeight over the bloom and pour steps.
RECURSIVE PouredWeight(_)
PouredWeight(steps) ==
    IF steps = <<>> THEN 0
    ELSE (IF Head(steps).type \in {"bloom", "pour"} THEN Head(steps).targetWeight ELSE 0)
         + PouredWeight(Tail(steps))

\* C3, as stated: for every schedule generated by createCustomRecipe in basic
\* or legacy mode, the targetWeight of the bloom step and of all pour steps
\* sum exactly to the recipe's waterWeight.
StepWeightsSumExact ==
    Generated(recipe) => FInt(PouredWeight(recipe.steps)) = recipe.waterWeight

\* C3, amended: the sum of the bloom and pour targetWeight is within half a
\* gram per pour of waterWeight, and equals it when pours divides the water
\* left after the bloom.
StepWeightsSumWithinHalfGramPerPour ==
    Generated(recipe) =>
        LET sum      == PouredWeight(recipe.steps)
            water    == recipe.waterWeight
            afterBloom == FSub(water, FInt(recipe.steps[1].targetWeight))
        IN  /\ 2 * Abs(sum * water.d - water.n) <= recipe.pours * water.d
            /\ FDiv(afterBloom, FInt(recipe.pours)).d = 1 => FInt(sum) = water

\* 20 g at 1:16 with a 3x bloom and 3 pours: 60 + 3 * 87 = 321 against 320.
StepWeightsSumWitness ==
    /\ Generated(recipe)
    /\ recipe.waterWeight = FInt(320)
    /\ recipe.pours = 3
    /\ PouredWeight(recipe.steps) = 321

\* C4: with bloomWeight = round(coffeeWeight * bloomMultiplier) and
\* perPour = round((waterWeight - bloomWeight) / pours), bloomWeight +
\* pours * perPour is within pours grams of waterWeight, the bloom step
\* carries bloomWeight and every pour step carries perPour.
WeightConservation ==
    Generated(recipe) =>
        LET water       == recipe.waterWeight
            bloomWeight == FRound(FMul(recipe.coffeeWeight, recipe.bloomMultiplier))
            perPour     == FRound(FDiv(FSub(water, FInt(bloomWeight)), FInt(recipe.pours)))
            total       == bloomWeight + recipe.pours * perPour
        IN  /\ Abs(total * water.d - water.n) <= recipe.pours * water.d
            /\ recipe.steps[1].targetWeight = bloomWeight
            /\ \A i \in 1..Len(recipe.steps) :
                  recipe.steps[i].type = "pour" => recipe.steps[i].targetWeight = perPour

\* 20 g, 1:16, 4 pours, bloom 2.5: 50 + 4 * 68 = 322 against 320.
WeightConservationWitness ==
    /\ Generated(recipe)
    /\ recipe.coffeeWeight = FInt(20)
    /\ recipe.waterWeight = FInt(320)
    /\ recipe.pours = 4
    /\ recipe.steps[1].targetWeight = 50
    /\ \A i \in 2..5 : recipe.steps[i].type = "pour" /\ recipe.steps[i].targetWeight = 68

\* C5, as stated: for every recipe returned by createCustomRecipe, in every
\* mode, the first step is the only bloom step, the last step is the only
\* drawdown step (targetWeight 0), and exactly recipe.pours pour steps lie
\* between them, so steps.length = recipe.pours + 2.
StepStructure ==
    Custom(recipe) =>
        LET steps == recipe.steps
            n     == Len(steps)
        IN  /\ n = recipe.pours + 2
            /\ \A i \in 1..n : steps[i].type = "bloom" <=> i = 1
            /\ \A i \in 1..n : steps[i].type = "drawdown" <=> i = n
            /\ steps[n].targetWeight = 0
            /\ \A i \in 2..(n - 1) : steps[i].type = "pour"

\* C6, as stated: for every recipe returned by createCustomRecipe with
\* pours >= 1 and any totalBrewTimeSeconds, targetTimeInSeconds is strictly
\* increasing along the steps, the bloom being at 0.
StepTimesStrictlyIncreasing ==
    (Custom(recipe) /\ recipe.pours >= 1) =>
        /\ recipe.steps[1].targetTimeInSeconds = 0
        /\ \A i \in 1..(Len(recipe.steps) - 1) :
              recipe.steps[i].targetTimeInSeconds < recipe.steps[i + 1].targetTimeInSeconds

\* The rescaled step is the step, but for its id and its targetWeight.
SameStepButWeight(a, b) ==
    [a EXCEPT !.id = 0, !.targetWeight = 0] = [b EXCEPT !.id = 0, !.targetWeight = 0]

\* C7, as stated: for every built-in recipe and every recipe made by
\* createCustomRecipe, rescaling to the recipe's own waterWeight reproduces
\* coffeeWeight and every step's targetWeight to within 1 g; only the ids
\* change.
RescaleIdempotent ==
    (custom # NoRecipe /\ custom.waterWeight = recipe.waterWeight) =>
        LET a == FSub(custom.coffeeWeight, recipe.coffeeWeight)
        IN  /\ Abs(a.n) <= a.d
            /\ Len(custom.steps) = Len(recipe.steps)
            /\ \A i \in 1..Len(recipe.steps) :
                  /\ Abs(custom.steps[i].targetWeight - recipe.steps[i].targetWeight) <= 1
                  /\ SameStepButWeight(custom.steps[i], recipe.steps[i])
            /\ [custom EXCEPT !.id = 0, !.coffeeWeight = FInt(0), !.steps = <<>>]
                 = [recipe EXCEPT !.id = 0, !.coffeeWeight = FInt(0), !.steps = <<>>]

\* A complex setting of 2 or 3 dot-separated integer components.
WellFormedComplex(setting) ==
    LET parts == Split(SettingString(setting), ".")
    IN  /\ Len(parts) \in {2, 3}
        /\ \A i \in 1..Len(parts) :
              /\ Len(parts[i]) > 0
              /\ \A j \in 1..Len(parts[i]) : IsDigit(parts[i][j])

\* C11: for complex settings with start setting <= end setting and microns
\* strictly between the micron bounds, mapMicronsToSetting returns a non-null
\* setting whose click-equivalent value lies between those of the start and
\* the end setting, inclusive.
InterpolatedWithinRange ==
    ( /\ mapArgs.settingFormat = "complex"
      /\ WellFormedComplex(mapArgs.minSetting)
      /\ WellFormedComplex(mapArgs.maxSetting)
      /\ SettingValue(mapArgs.minSetting, "complex", mapArgs.clicksPerNumber)
           <= SettingValue(mapArgs.maxSetting, "complex", mapArgs.clicksPerNumber)
      /\ Interior(mapLast) )
        => /\ mapLast.result # Null
           /\ WellFormedComplex(mapLast.result)
           /\ SettingValue(mapArgs.minSetting, "complex", mapArgs.clicksPerNumber)
                <= CallValue(mapLast)
           /\ CallValue(mapLast)
                <= SettingValue(mapArgs.maxSetting, "complex", mapArgs.clicksPerNumber)

\* C11 witness: a call strictly inside the micron range returned a setting
\* whose value is strictly between those of two different bounds.
InterpolatedWithinRangeWitness ==
    /\ mapArgs.settingFormat = "complex"
    /\ Interior(mapLast)
    /\ SettingValue(mapArgs.minSetting, "complex", mapArgs.clicksPerNumber)
         < CallValue(mapLast)
    /\ CallValue(mapLast)
         < SettingValue(mapArgs.maxSetting, "complex", mapArgs.clicksPerNumber)

\* C18, as stated: whenever maxMicrons <= minMicrons, mapMicronsToSetting
\* returns null, for every microns value and both formats.
DegenerateRangeReported ==
    (mapLast.called /\ mapArgs.maxMicrons <= mapArgs.minMicrons) => mapLast.result = Null

\* C19, as stated: in complex format, if minSetting or maxSetting is not 2 or
\* 3 dot-separated integer components, mapMicronsToSetting returns null for
\* every microns value.
MalformedSettingSurfaced ==
    ( /\ mapLast.called
      /\ mapArgs.settingFormat = "complex"
      /\ ~WellFormedComplex(mapArgs.minSetting) \/ ~WellFormedComplex(mapArgs.maxSetting) )
        => mapLast.result = Null

\* C12, as stated: in basic mode, for every pours >= 1 and every
\* totalBrewTimeSeconds, the bloom is at 0, pour i (0-based) at 45 + i*interval
\* with interval the even share of totalBrewTimeSeconds - 45 - 60, the
\* drawdown at 45 + pours*interval, and the recipe's totalBrewTime equals the
\* requested totalBrewTimeSeconds.
BasicTimingPartition ==
    (recipe.mode = "basic" /\ recipe.pours >= 1) =>
        LET pours     == recipe.pours
            requested == IF requestedBrewTime = Undefined
                         THEN DEFAULT_BLOOM_TIME
                              + pours * (DEFAULT_POUR_TIME + DEFAULT_INTERVAL_BETWEEN_POURS)
                              + DEFAULT_DRAWDOWN_TIME
                         ELSE requestedBrewTime
            interval  == (requested - DEFAULT_BLOOM_TIME - DEFAULT_DRAWDOWN_TIME) \div pours
        IN  /\ recipe.steps[1].targetTimeInSeconds = 0
            /\ \A i \in 0..(pours - 1) :
                  recipe.steps[i + 2].targetTimeInSeconds = DEFAULT_BLOOM_TIME + i * interval
            /\ recipe.steps[pours + 2].targetTimeInSeconds = DEFAULT_BLOOM_TIME + pours * interval
            /\ recipe.totalBrewTime = requested

\* C13: calculateRecipeWithCustomWater returns the same steps in the same
\* order, each keeping type, targetTime, targetTimeInSeconds and targetRatio,
\* with ratio, pours, bloomMultiplier, totalBrewTime (and the modes) unchanged;
\* the drawdown step keeps its weight, and waterWeight is the weight asked for.
RescaleFrame ==
    custom # NoRecipe =>
        /\ Len(custom.steps) = Len(recipe.steps)
        /\ \A i \in 1..Len(recipe.steps) :
              /\ custom.steps[i].type = recipe.steps[i].type
              /\ custom.steps[i].targetTime = recipe.steps[i].targetTime
              /\ custom.steps[i].targetTimeInSeconds = recipe.steps[i].targetTimeInSeconds
              /\ custom.steps[i].targetRatio = recipe.steps[i].targetRatio
              /\ recipe.steps[i].type = "drawdown" =>
                    custom.steps[i].targetWeight = recipe.steps[i].targetWeight
        /\ custom.ratio = recipe.ratio
        /\ custom.pours = recipe.pours
        /\ custom.bloomMultiplier = recipe.bloomMultiplier
        /\ custom.totalBrewTime = recipe.totalBrewTime
        /\ custom.mode = recipe.mode
        /\ custom.inputMode = recipe.inputMode
        /\ custom.waterWeight \in {recipe.waterWeight, FInt(300)}

\* C13 witness: a built-in recipe was rescaled to another water weight and a
\* pour step's weight changed.
RescaleFrameWitness ==
    /\ custom # NoRecipe
    /\ recipe.mode = "undefined"
    /\ custom.waterWeight # recipe.waterWeight
    /\ custom.coffeeWeight # recipe.coffeeWeight
    /\ custom.id # recipe.id
    /\ custom.steps[2].targetWeight # recipe.steps[2].targetWeight

\* C20, as stated: for every recipe step sequence and every elapsed time, the
\* current step is the last step whose targetTimeInSeconds <= elapsed, or the
\* first step if elapsed precedes all steps; it depends only on the elapsed
\* time and the step list.
CurrentStepLookup ==
    recipe # NoRecipe =>
        LET steps      == selectedRecipe.steps
            atOrBefore == {i \in 1..Len(steps) :
                              steps[i].targetTimeInSeconds <= currentTimeInSeconds}
        IN  currentStep = IF atOrBefore = {} THEN steps[1]
                          ELSE steps[CHOOSE i \in atOrBefore : \A k \in atOrBefore : k <= i]

\* The query returned a result for the grinder it found.
QueryAnswered ==
    queryResult.called /\ ~queryResult.error

\* The grinder's own methods that match the query, in catalog order.
GrinderMatches ==
    FilterMethods(queryResult.grinder.brew_methods, queryResult.params.targetMicrons,
                  queryResult.params.brewMethod)

\* C14: whenever at least one of the grinder's brew methods matches the target
\* and the filter, the setting the query returns is interpolated from the
\* start/end setting, micron range and format of the first method of the
\* returned matching_methods list (the list ordered by fit score).
FirstMatchedMethodBounds ==
    (QueryAnswered /\ GrinderMatches # <<>>) =>
        LET method == queryResult.matching_methods[1]
        IN  /\ queryResult.setting_format = method.setting_format
            /\ queryResult.calculated_setting =
                   mapMicronsToSetting(queryResult.target_microns,
                                       method.start_setting, method.end_setting,
                                       method.start_microns, method.end_microns,
                                       method.setting_format,
                                       queryResult.grinder.clicks_per_number)

\* C15: when no method of the grinder matches, the returned list holds exactly
\* the standard brew methods whose micron band contains targetMicrons and, if a
\* filter is given, whose method name contains the filter case-insensitively;
\* each is a placeholder with null start/end settings.
StandardFallbackFiltered ==
    (QueryAnswered /\ GrinderMatches = <<>>) =>
        LET returned == queryResult.matching_methods
            t        == queryResult.params.targetMicrons
            filter   == queryResult.params.brewMethod
            expected == {k \in 1..Len(STANDARD_BREW_METHODS) :
                            /\ STANDARD_BREW_METHODS[k].min_microns <= t
                            /\ t <= STANDARD_BREW_METHODS[k].max_microns
                            /\ (filter = <<>>
                                \/ Includes(ToLowerCase(STANDARD_BREW_METHODS[k].name),
                                            ToLowerCase(filter)))}
        IN  /\ Len(returned) = Cardinality(expected)
            /\ {returned[i].method_name : i \in 1..Len(returned)}
                   = {STANDARD_BREW_METHODS[k].name : k \in expected}
            /\ \A i \in 1..Len(returned) :
                   returned[i].start_setting = Null /\ returned[i].end_setting = Null

\* The place of a returned method in the list it was taken from: the grinder's
\* brew_methods, or the standard table for a placeholder.
OriginalIndex(method) ==
    IF method.id = 0 - 1
    THEN CHOOSE k \in 1..Len(STANDARD_BREW_METHODS) :
             STANDARD_BREW_METHODS[k].name = method.method_name
    ELSE CHOOSE k \in 1..Len(queryResult.grinder.brew_methods) :
             queryResult.grinder.brew_methods[k].id = method.id

\* The -0.3 of a method the target is typical for.
HasBonus(method, t) ==
    \/ Includes(ToLowerCase(method.method_name), <<"v", "6", "0">>) /\ 450 <= t /\ t <= 550
    \/ Includes(ToLowerCase(method.method_name),
                <<"e", "s", "p", "r", "e", "s", "s", "o">>) /\ 200 <= t /\ t <= 300

QueryErrorPolicy ==
    queryResult.called =>
        LET wanted      == ToLowerCase(queryResult.params.grinderName)
            Contains(i) == Includes(ToLowerCase(catalog.grinders[i].name), wanted)
        IN  /\ queryResult.error <=> \A i \in 1..Len(catalog.grinders) : ~Contains(i)
            /\ ~queryResult.error =>
                   /\ \E i \in 1..Len(catalog.grinders) :
                          /\ Contains(i)
                          /\ \A k \in 1..(i - 1) : ~Contains(k)
                          /\ queryResult.grinder = catalog.grinders[i]
                   /\ queryResult.target_microns = queryResult.params.targetMicrons
                   /\ queryResult.grind_category
                          = getGrindCategory(queryResult.params.targetMicrons)
                   /\ DOMAIN queryResult.matching_methods
                          = 1..Len(queryResult.matching_methods)

\* A grinder found by a name in another case, asked for a target beyond its
\* declared range that no method matches.
QueryErrorPolicyWitness ==
    /\ QueryAnswered
    /\ queryResult.params.grinderName # ToLowerCase(queryResult.params.grinderName)
    /\ queryResult.target_microns > queryResult.grinder.max_microns
    /\ queryResult.matching_methods = <<>>
    /\ queryResult.grind_category = "Extra Coarse"

\* The coffee weight, water weight and step weights of two recipes agree.
SameWeights(a, b) ==
    /\ a.coffeeWeight = b.coffeeWeight
    /\ a.waterWeight = b.waterWeight
    /\ Len(a.steps) = Len(b.steps)
    /\ \A i \in 1..Len(a.steps) : a.steps[i].targetWeight = b.steps[i].targetWeight

\* C24: rescaling is path-independent: a recipe reached through any chain of
\* rescales has the coffeeWeight, waterWeight and step targetWeights of the
\* original recipe rescaled once to the last water weight, and rescaling it
\* again to any w2 gives the weights of the original rescaled to w2.
RescalePathIndependent ==
    custom # NoRecipe =>
        /\ SameWeights(custom, calculateRecipeWithCustomWater(recipe, custom.waterWeight, 0))
        /\ \A w2 \in TypedWaterWeights :
              SameWeights(calculateRecipeWithCustomWater(custom, w2, 0),
                          calculateRecipeWithCustomWater(recipe, w2, 0))

\* C24 witness: a recipe rescaled twice whose weights differ from the original's.
RescalePathIndependentWitness ==
    /\ custom # NoRecipe
    /\ rescales = 2
    /\ custom.waterWeight = FInt(333)
    /\ custom.coffeeWeight # recipe.coffeeWeight
    /\ custom.steps[1].targetWeight # recipe.steps[1].targetWeight
    /\ custom.steps[2].targetWeight # recipe.steps[2].targetWeight

\* C25: when totalBrewTimeSeconds is omitted, createCustomRecipe in basic mode
\* produces the steps of the legacy fixed-spacing schedule (same types, times,
\* weights and ratios): bloom at 0, pour i at 45 + 30*i, drawdown at
\* 45 + 30*pours, and totalBrewTime 45 + 30*pours + 60.
DefaultBasicEqualsLegacy ==
    (recipe # NoRecipe /\ recipe.mode = "basic" /\ requestedBrewTime = Undefined) =>
        LET pours      == recipe.pours
            bloomWater == FRound(FMul(recipe.coffeeWeight, recipe.bloomMultiplier))
            spacing    == DEFAULT_POUR_TIME + DEFAULT_INTERVAL_BETWEEN_POURS
        IN  /\ recipe.steps = createLegacySteps(recipe.waterWeight, bloomWater,
                                                recipe.bloomMultiplier, pours,
                                                recipe.steps[1].id - 1)
            /\ recipe.steps[1].targetTimeInSeconds = 0
            /\ \A i \in 0..(pours - 1) :
                  recipe.steps[i + 2].targetTimeInSeconds = DEFAULT_BLOOM_TIME + spacing * i
            /\ recipe.steps[pours + 2].targetTimeInSeconds = DEFAULT_BLOOM_TIME + spacing * pours
            /\ recipe.totalBrewTime
                   = DEFAULT_BLOOM_TIME + spacing * pours + DEFAULT_DRAWDOWN_TIME

\* C25 witness: a basic-mode recipe of several pours made without a brew time,
\* whose pour weight was rounded.
DefaultBasicEqualsLegacyWitness ==
    /\ recipe # NoRecipe
    /\ recipe.mode = "basic"
    /\ requestedBrewTime = Undefined
    /\ recipe.pours >= 2
    /\ FInt(recipe.steps[2].targetWeight * recipe.pours)
           # FSub(recipe.waterWeight, FInt(recipe.steps[1].targetWeight))

\* clicksPerRotation = numbersPerRotation * clicksPerNumber
RotationInvariant(bundle) ==
    bundle.clicksPerRotation = bundle.numbersPerRotation * bundle.clicksPerNumber

\* C22: every parameter bundle the calculator computes with satisfies
\* clicksPerRotation = numbersPerRotation * clicksPerNumber: each entry of
\* GRINDER_MODELS, and the custom settings after any sequence of model
\* selections and advanced-setting edits.
GrinderModelInvariant ==
    /\ \A k \in 1..Len(GRINDER_MODELS) : RotationInvariant(GRINDER_MODELS[k])
    /\ RotationInvariant(customSettings)
    /\ RotationInvariant(SettingsInUse(showAdvanced, customSettings, selectedModel))

\* Two calibration points are at the same (rotations, numbers, clicks).
SameTriple(p, q) ==
    p.rotations = q.rotations /\ p.numbers = q.numbers /\ p.clicks = q.clicks

\* C23: the stored calibration points have pairwise distinct (rotations,
\* numbers, clicks); adding a point replaces the point of the same triple, so
\* that only the newest measuredMicrons remains; removing a point deletes the
\* point of that triple and leaves the others unchanged; and the value saved
\* under the model's key is the in-memory point list after each call.
CalibrationStore ==
    LET points == calibrationData.points
        before == lastEvent.before
        point  == lastEvent.point
        Other(q) == ~SameTriple(q, point)
    IN  /\ \A i, j \in 1..Len(points) : i # j => ~SameTriple(points[i], points[j])
        /\ lastEvent.kind \in {"add", "remove"} =>
               localStorage[selectedModel.id].points = points
        /\ lastEvent.kind = "add" =>
               /\ Len(points) >= 1
               /\ points[Len(points)] = point
               /\ SubSeq(points, 1, Len(points) - 1) = SelectSeq(before, Other)
        /\ lastEvent.kind = "remove" =>
               /\ points = SelectSeq(before, Other)
               /\ Len(points) = Len(before) - 1

\* C23 witness: a point was added at a setting that already had a point with
\* another measuredMicrons, beside another point that stayed.
CalibrationStoreWitness ==
    /\ lastEvent.kind = "add"
    /\ Len(calibrationData.points) >= 2
    /\ \E i \in 1..Len(lastEvent.before) :
           /\ SameTriple(lastEvent.before[i], lastEvent.point)
           /\ lastEvent.before[i].measuredMicrons # lastEvent.point.measuredMicrons

\* C26: after a target-micron edit, a brew-method quick-select or a
\* calibration update, the displayed setting is the one computed from the
\* latest target microns and the latest calibration data; in particular
\* settings.microns is the current target.
CalculatorNeverStale ==
    lastEvent.kind \in {"target", "brewMethod", "add", "remove"} =>
        /\ settings.shown
        /\ settings.microns = micronsTarget
        /\ settings = calculateSettings(SettingsInUse(showAdvanced, customSettings,
                                                      selectedModel),
                                        calculatorCalibration, micronsTarget)

\* C27: with at least 2 calibration points and a model satisfying the rotation
\* invariant, the calibrated setting has finite components with
\* rotations >= 0, 0 <= numbers < numbersPerRotation, 0 <= clicks <
\* clicksPerNumber, recomposes to the rounded interpolated click count, and that
\* count lies between the bracketing points' click counts when the target lies
\* between their measuredMicrons.
CalibratedSettingWellFormed ==
    LET bundle == SettingsInUse(showAdvanced, customSettings, selectedModel)
        points == calculatorCalibration.points
    IN  (lastEvent.kind = "calculate" /\ Len(points) >= 2 /\ RotationInvariant(bundle)) =>
            LET pair        == Bracket(points, micronsTarget)
                lowerClicks == PointClicks(pair.lower, bundle)
                upperClicks == PointClicks(pair.upper, bundle)
                total       == settings.rotations * bundle.clicksPerRotation
                                   + settings.numbers * bundle.clicksPerNumber
                                   + settings.clicks
            IN  /\ IsFinite(settings.rotations)
                /\ IsFinite(settings.numbers)
                /\ IsFinite(settings.clicks)
                /\ settings.rotations >= 0
                /\ 0 <= settings.numbers /\ settings.numbers < bundle.numbersPerRotation
                /\ 0 <= settings.clicks /\ settings.clicks < bundle.clicksPerNumber
                /\ total = InterpolatedClicks(pair.lower, pair.upper, bundle, micronsTarget)
                /\ (/\ pair.lower.measuredMicrons <= micronsTarget
                    /\ micronsTarget <= pair.upper.measuredMicrons)
                   => \/ lowerClicks <= total /\ total <= upperClicks
                      \/ upperClicks <= total /\ total <= lowerClicks

\* C21: for a burst of water-weight edits, each less than 500 ms after the one
\* before, calculateRecipeWithCustomWater is invoked at most once, 500 ms
\* after the last edit and with the value entered last; no earlier value of
\* the burst triggers a recompute.
DebouncedRecompute ==
    /\ Len(recomputed) <= 1
    /\ \A i \in 1..Len(recomputed) :
          /\ recomputed[i].sinceEdit >= DebounceWait
          /\ FInt(recomputed[i].weight) = recomputed[i].entered

\* C28: while the timer is active (isTimerActive, the water input disabled)
\* selectedRecipe is not replaced, also not by a debounced recompute that was
\* pending when the timer became active.
RecipeFrozenWhileBrewing ==
    [][isTimerActive => selectedRecipe' = selectedRecipe]_vars

\* The water of the bloom and pour steps of a recipe.
PourTotal(rcp) ==
    CompletedWater(rcp.steps, Len(rcp.steps))

\* C29: in every render of the brewing screen, also the ones right after the
\* current step changes, totalWaterPoured is at most the sum of targetWeight
\* over the bloom and pour steps of the recipe: no step is counted twice.
PouredWaterBounded ==
    recipe # NoRecipe => totalWaterPoured <= PourTotal(selectedRecipe)

\* C30: every change of the Timer's timeInSeconds reaches the screen: whenever
\* no notification is pending, currentTimeInSeconds is the Timer's
\* timeInSeconds, also when the screen rendered between the change and its
\* delivery.
NoLostTimeUpdate ==
    ~timeoutId.pending => currentTimeInSeconds = timerSeconds

====
